---- MODULE Spec2Model ----
(***************************************************************************)
(* Model of the OpenCowork agent core:                                     *)
(*   AgentRuntime        (electron/agent/AgentRuntime.ts, src/unnamed/     *)
(*                        part_001)                                        *)
(*   PermissionManager   (src/unnamed/part_000)                            *)
(*   ConfigStore         (src/electron/config/ConfigStore.ts)              *)
(*   IPC handlers        (electron/main.ts, src/unnamed/part_002)          *)
(*                                                                         *)
(* Strings are sequences of one-character strings, so that String.startsWith*)
(* path.resolve and RegExp.test are computed on characters.                *)
(*                                                                         *)
(* JavaScript runs one task at a time: a continuation runs from one await  *)
(* of an I/O promise to the next without interleaving.  runq is the queue  *)
(* of continuations that are running or ready (microtasks); handlers and   *)
(* I/O completions (macrotasks) fire only when runq is empty.              *)
(***************************************************************************)
EXTENDS Integers, Sequences, FiniteSets, TLC

\* ------------------------------------------------------------------------
\* Bounds of the model
\* ------------------------------------------------------------------------
MaxPathLen == 3
MaxFolders == 3
MaxCalls == 2
MaxRequests == 2
MaxNow == 60001
MaxWords == 3
MaxItems == 3

\* ------------------------------------------------------------------------
\* Strings
\* ------------------------------------------------------------------------
StartsWith(s, p) ==
    /\ Len(p) <= Len(s)
    /\ \A i \in 1..Len(p) : s[i] = p[i]

RECURSIVE Split(_)
\* String.prototype.split('/') : the list of segments between separators
Split(s) ==
    IF \A i \in 1..Len(s) : s[i] # "/"
    THEN <<s>>
    ELSE LET k == CHOOSE i \in 1..Len(s) :
                       s[i] = "/" /\ \A j \in 1..(i-1) : s[j] # "/"
         IN  <<SubSeq(s, 1, k-1)>> \o Split(SubSeq(s, k+1, Len(s)))

RECURSIVE NormalizeSegments(_, _)
\* posix normalizeString: drop '' and '.', '..' pops the previous segment
NormalizeSegments(segs, stack) ==
    IF segs = <<>> THEN stack
    ELSE LET seg == Head(segs)
             rest == Tail(segs)
         IN  IF seg = <<>> \/ seg = <<".">>
             THEN NormalizeSegments(rest, stack)
             ELSE IF seg = <<".", ".">>
             THEN NormalizeSegments(rest,
                      IF stack = <<>> THEN stack
                      ELSE SubSeq(stack, 1, Len(stack) - 1))
             ELSE NormalizeSegments(rest, Append(stack, seg))

RECURSIVE JoinSegments(_)
JoinSegments(segs) ==
    IF segs = <<>> THEN <<>>
    ELSE <<"/">> \o Head(segs) \o JoinSegments(Tail(segs))

\* process.cwd() of the main process
Cwd == <<"/", "w">>

\* path.resolve(p) on a posix host
resolve(p) ==
    LET abs  == IF p # <<>> /\ p[1] = "/" THEN p ELSE Cwd \o <<"/">> \o p
        segs == NormalizeSegments(Split(abs), <<>>)
    IN  IF segs = <<>> THEN <<"/">> ELSE JoinSegments(segs)

\* ------------------------------------------------------------------------
\* Regular expressions (the subset DANGEROUS_PATTERNS and isSafeCommand use)
\* ------------------------------------------------------------------------
UpperCase == {"A", "B", "C", "D", "E", "F", "G", "H", "I", "J", "K", "L", "M",
              "N", "O", "P", "Q", "R", "S", "T", "U", "V", "W", "X", "Y", "Z"}

UpperSeq == <<"A", "B", "C", "D", "E", "F", "G", "H", "I", "J", "K", "L", "M",
             "N", "O", "P", "Q", "R", "S", "T", "U", "V", "W", "X", "Y", "Z">>

LowerSeq == <<"a", "b", "c", "d", "e", "f", "g", "h", "i", "j", "k", "l", "m",
             "n", "o", "p", "q", "r", "s", "t", "u", "v", "w", "x", "y", "z">>

toLowerCase(c) ==
    IF c \in UpperCase
    THEN LowerSeq[CHOOSE i \in 1..26 : UpperSeq[i] = c]
    ELSE c

IsSpace(c) == c = " " \/ c = "\t"

\* regex items: literal character (case-insensitive), \s+, \s*, c?, (a|b|c)
L(c)     == [t |-> "c",   c |-> c,  alts |-> {}]
SPlus    == [t |-> "s+",  c |-> "", alts |-> {}]
SStar    == [t |-> "s*",  c |-> "", alts |-> {}]
Opt(c)   == [t |-> "opt", c |-> c,  alts |-> {}]
Alt(as)  == [t |-> "alt", c |-> "", alts |-> as]
Lit(w)   == [k \in 1..Len(w) |-> L(w[k])]

StartsWithI(s, i, w) ==
    /\ i + Len(w) - 1 <= Len(s)
    /\ \A k \in 1..Len(w) : toLowerCase(s[i + k - 1]) = w[k]

RECURSIVE MatchFrom(_, _, _, _)
\* pat[j..] matches a prefix of s[i..]
MatchFrom(s, i, pat, j) ==
    IF j > Len(pat) THEN TRUE
    ELSE LET it == pat[j] IN
      CASE it.t = "c" ->
             /\ i <= Len(s)
             /\ toLowerCase(s[i]) = it.c
             /\ MatchFrom(s, i + 1, pat, j + 1)
        [] it.t = "s+" ->
             \E k \in 1..(Len(s) - i + 1) :
                /\ \A m \in i..(i + k - 1) : IsSpace(s[m])
                /\ MatchFrom(s, i + k, pat, j + 1)
        [] it.t = "s*" ->
             \E k \in 0..(Len(s) - i + 1) :
                /\ \A m \in i..(i + k - 1) : IsSpace(s[m])
                /\ MatchFrom(s, i + k, pat, j + 1)
        [] it.t = "opt" ->
             \/ MatchFrom(s, i, pat, j + 1)
             \/ /\ i <= Len(s)
                /\ toLowerCase(s[i]) = it.c
                /\ MatchFrom(s, i + 1, pat, j + 1)
        [] it.t = "alt" ->
             \E a \in it.alts :
                /\ StartsWithI(s, i, a)
                /\ MatchFrom(s, i + Len(a), pat, j + 1)

\* RegExp.prototype.test for an unanchored pattern
test(pat, s) == \E i \in 1..(Len(s) + 1) : MatchFrom(s, i, pat, 1)

RECURSIVE TrimLeft(_)
TrimLeft(s) == IF s # <<>> /\ IsSpace(s[1]) THEN TrimLeft(Tail(s)) ELSE s

RECURSIVE TrimRight(_)
TrimRight(s) ==
    IF s # <<>> /\ IsSpace(s[Len(s)])
    THEN TrimRight(SubSeq(s, 1, Len(s) - 1)) ELSE s

trim(s) == TrimRight(TrimLeft(s))

DANGEROUS_PATTERNS == {
    Lit(<<"r","m">>) \o <<SPlus>> \o Lit(<<"-","r","f">>) \o <<SPlus>>,
    Lit(<<"r","m">>) \o <<SPlus>> \o Lit(<<"-","r">>) \o <<SPlus>>,
    Lit(<<"d","e","l">>) \o <<SPlus>> \o Lit(<<"/","s">>) \o <<SPlus>>
        \o Lit(<<"/","q">>),
    Lit(<<"r","d">>) \o <<SPlus>> \o Lit(<<"/","s">>) \o <<SPlus>>
        \o Lit(<<"/","q">>),
    Lit(<<"f","o","r","m","a","t">>) \o <<SPlus>>,
    Lit(<<"m","k","f","s">>),
    Lit(<<"d","d">>) \o <<SPlus>> \o Lit(<<"i","f","=">>),
    Lit(<<"s","h","r","e","d">>),
    <<L(">"), SStar, Opt("/")>> \o Lit(<<"d","e","v","/">>)
        \o <<Alt({<<"n","u","l","l">>, <<"s","d","a">>, <<"s","d","b">>})>>,
    <<L("2"), L(">"), SStar, L("&"), L("1"), SStar, L(">"), SStar>>
        \o Lit(<<"/","d","e","v","/","n","u","l","l">>),
    Lit(<<"c","h","m","o","d">>) \o <<SPlus>> \o Lit(<<"7","7","7">>),
    Lit(<<"c","h","m","o","d">>) \o <<SPlus>> \o Lit(<<"-","r">>) \o <<SPlus>>
        \o Lit(<<"7","7","7">>),
    Lit(<<"c","h","o","w","n">>) \o <<SPlus>> \o Lit(<<"-","r">>) }

\* DANGEROUS_PATTERNS.some(pattern => pattern.test(command.trim()))
isDangerousCommand(command) ==
    \E pat \in DANGEROUS_PATTERNS : test(pat, trim(command))

\* ------------------------------------------------------------------------
\* State
\* ------------------------------------------------------------------------
VARIABLES
    authorizedFolders,     \* ConfigStore: store.get('authorizedFolders')
    allowedPermissions,    \* ConfigStore: store.get('allowedPermissions')
    now,                   \* Date.now()
    files,                 \* paths that exist on disk (fs.existsSync)
    history,               \* AgentRuntime.history
    artifacts,             \* AgentRuntime.artifacts
    abortController,       \* AgentRuntime.abortController (0 is null)
    aborted,               \* controllers whose signal.aborted is true
    isProcessing,          \* AgentRuntime.isProcessing
    pendingConfirmations,  \* AgentRuntime.pendingConfirmations (insertion order)
    lastProcessTime,       \* AgentRuntime.lastProcessTime
    proc,                  \* the processUserMessage invocations
    runq,                  \* continuations running or ready to run
    sent,                  \* notifications broadcast, per channel
    effects,               \* file, command and tool-server operations started
    nReq,                  \* provider requests issued
    nextConfirm,           \* confirmation ids handed out
    last,                  \* the handler that ran last, its argument (a path, or
                           \* in inv the confirmation id) and its outcome
    cfg                    \* limits of the explored scenario

vars == <<authorizedFolders, allowedPermissions, now, files, history, artifacts,
          abortController, aborted, isProcessing, pendingConfirmations,
          lastProcessTime, proc, runq, sent, effects, nReq, nextConfirm,
          last, cfg>>

storeVars == <<authorizedFolders, allowedPermissions>>
agentVars == <<history, artifacts, abortController, aborted, isProcessing,
               pendingConfirmations, lastProcessTime, proc, runq, sent,
               effects, nReq, nextConfirm>>

\* ------------------------------------------------------------------------
\* Paths and characters the scenarios draw from
\* ------------------------------------------------------------------------
PathChars == {"/", "a", "."}

RECURSIVE StringsUpTo(_)
StringsUpTo(n) ==
    IF n = 0 THEN {<<>>}
    ELSE LET shorter == StringsUpTo(n - 1)
         IN  shorter \cup {Append(s, c) : s \in {t \in shorter : Len(t) = n - 1},
                                          c \in PathChars}

Paths == StringsUpTo(MaxPathLen)

\* folder paths a user can hand to the folder handlers
FolderInputs == { <<"/">>, <<"/", "a">>, <<"/", "a", "/">>, <<"a">>,
                  <<"/", "a", "/", ".", ".">>, <<"/", "a", "/", "a">> }

TrustLevels == {"strict", "standard", "trust"}

\* ------------------------------------------------------------------------
\* ConfigStore (src/electron/config/ConfigStore.ts)
\* ------------------------------------------------------------------------
\* An entry of authorizedFolders is either a string (what addAuthorizedFolder
\* pushes) or an object {path, trustLevel, addedAt} (what the IPC handlers
\* push).  f.path of a string entry is undefined.
StrEntry(p)        == [kind |-> "str", path |-> p, trustLevel |-> "undefined",
                       addedAt |-> -1]
ObjEntry(p, t, at) == [kind |-> "obj", path |-> p, trustLevel |-> t,
                       addedAt |-> at]

\* folders.includes(folder) for a string folder
includes(folders, folder) ==
    \E i \in 1..Len(folders) : folders[i] = StrEntry(folder)

addAuthorizedFolder(folders, folder) ==
    IF ~includes(folders, folder)
    THEN Append(folders, StrEntry(folder))
    ELSE folders

removeAuthorizedFolder(folders, folder) ==
    LET keep(f) == f # StrEntry(folder) IN SelectSeq(folders, keep)

\* f.path === folderPath
PathIs(f, folderPath) == f.kind = "obj" /\ f.path = folderPath

\* ------------------------------------------------------------------------
\* PermissionManager (src/unnamed/part_000)
\* ------------------------------------------------------------------------
IsDriveRoot(s) ==
    /\ Len(s) = 3
    /\ s[1] \in UpperCase
    /\ s[2] = ":"
    /\ s[3] = "\\"

\* the check of authorizeFolder: the path is refused as a root
isRootRefused(normalized) ==
    \/ normalized = <<"/">>
    \/ normalized = <<"C", ":", "\\">>
    \/ IsDriveRoot(normalized)

\* path.resolve(f.path) throws a TypeError when f.path is undefined
getAuthorizedFoldersThrows(folders) ==
    \E i \in 1..Len(folders) : folders[i].kind = "str"

getAuthorizedFolders(folders) ==
    [i \in 1..Len(folders) |-> resolve(folders[i].path)]

isPathAuthorized(filePath, folders) ==
    LET normalized == resolve(filePath)
        resolved   == getAuthorizedFolders(folders)
    IN  \E i \in 1..Len(resolved) : StartsWith(normalized, resolved[i])

\* ------------------------------------------------------------------------
\* Folder operations
\* ------------------------------------------------------------------------
\* PermissionManager.authorizeFolder(folderPath)
authorizeFolder(folderPath) ==
    LET normalized == resolve(folderPath) IN
    /\ runq = <<>>
    /\ Len(authorizedFolders) < MaxFolders
    /\ IF isRootRefused(normalized)
       THEN /\ UNCHANGED authorizedFolders
            /\ last' = [op |-> "authorizeFolder", arg |-> folderPath,
                        inv |-> 0, res |-> "false"]
       ELSE /\ authorizedFolders' =
                   addAuthorizedFolder(authorizedFolders, normalized)
            /\ last' = [op |-> "authorizeFolder", arg |-> folderPath,
                        inv |-> 0, res |-> "true"]
    /\ UNCHANGED <<allowedPermissions, now, files, cfg>>
    /\ UNCHANGED agentVars

\* PermissionManager.revokeFolder(folderPath)
revokeFolder(folderPath) ==
    /\ runq = <<>>
    /\ authorizedFolders' =
           removeAuthorizedFolder(authorizedFolders, resolve(folderPath))
    /\ last' = [op |-> "revokeFolder", arg |-> folderPath, inv |-> 0,
                res |-> ""]
    /\ UNCHANGED <<allowedPermissions, now, files, cfg>>
    /\ UNCHANGED agentVars

\* ipcMain.handle('agent:authorize-folder')
IpcAuthorizeFolder(folderPath) ==
    /\ runq = <<>>
    /\ Len(authorizedFolders) < MaxFolders
    /\ authorizedFolders' =
          IF ~\E i \in 1..Len(authorizedFolders) :
                   PathIs(authorizedFolders[i], folderPath)
          THEN Append(authorizedFolders, ObjEntry(folderPath, "strict", now))
          ELSE authorizedFolders
    /\ last' = [op |-> "agent:authorize-folder", arg |-> folderPath,
                inv |-> 0, res |-> "true"]
    /\ UNCHANGED <<allowedPermissions, now, files, cfg>>
    /\ UNCHANGED agentVars

\* the handler that always puts a fresh 'strict' entry in front
IpcSetWorkingDirResetsEntry(folderPath) ==
    LET folders      == authorizedFolders
        isOther(f)   == ~PathIs(f, folderPath)
        otherFolders == SelectSeq(folders, isOther)
        newFolders   == <<ObjEntry(folderPath, "strict", now)>>
                            \o otherFolders
    IN
    /\ runq = <<>>
    /\ Len(newFolders) <= MaxFolders
    /\ authorizedFolders' = newFolders
    /\ last' = [op |-> "agent:set-working-dir", arg |-> folderPath,
                inv |-> 0, res |-> "true"]
    /\ UNCHANGED <<allowedPermissions, now, files, cfg>>
    /\ UNCHANGED agentVars

\* ipcMain.handle('agent:set-working-dir')
IpcSetWorkingDir(folderPath) ==
    LET folders      == authorizedFolders
        isIt(f)      == PathIs(f, folderPath)
        isOther(f)   == ~PathIs(f, folderPath)
        found        == SelectSeq(folders, isIt)
        otherFolders == SelectSeq(folders, isOther)
        newFolders   == IF found # <<>>
                        THEN <<found[1]>> \o otherFolders
                        ELSE <<ObjEntry(folderPath, "strict", now)>>
                                 \o otherFolders
    IN
    /\ runq = <<>>
    /\ Len(newFolders) <= MaxFolders
    /\ authorizedFolders' = newFolders
    /\ last' = [op |-> "agent:set-working-dir", arg |-> folderPath,
                inv |-> 0, res |-> "true"]
    /\ UNCHANGED <<allowedPermissions, now, files, cfg>>
    /\ UNCHANGED agentVars

\* time passes
TickSteps == {30000, 30001}

Tick ==
    /\ runq = <<>>
    /\ \E d \in TickSteps :
          /\ now + d <= cfg.maxNow
          /\ now' = now + d
    /\ UNCHANGED last
    /\ UNCHANGED <<authorizedFolders, allowedPermissions, files, cfg>>
    /\ UNCHANGED agentVars

\* ------------------------------------------------------------------------
\* Tool permissions (ConfigStore) and trust levels
\* ------------------------------------------------------------------------
Star == <<"*">>

Permission(tool, pathPattern, at) ==
    [tool |-> tool, pathPattern |-> pathPattern, grantedAt |-> at]

\* hasPermission that skips the comparison of the tool names
hasPermissionAnyTool(permissions, tool, path) ==
    \E i \in 1..Len(permissions) :
       LET p == permissions[i] IN
       \/ p.pathPattern = Star
       \/ /\ path # <<>>
          /\ StartsWith(path, p.pathPattern)

\* ConfigStore.hasPermission(tool, path); an undefined or empty path is <<>>
hasPermission(permissions, tool, path) ==
    \E i \in 1..Len(permissions) :
       LET p == permissions[i] IN
       /\ p.tool = tool
       /\ \/ p.pathPattern = Star
          \/ /\ path # <<>>
             /\ StartsWith(path, p.pathPattern)

\* ConfigStore.addPermission(tool, pathPattern); pathPattern || '*'
addPermission(permissions, tool, pathPattern, at) ==
    LET pattern == IF pathPattern = <<>> THEN Star ELSE pathPattern
        exists  == \E i \in 1..Len(permissions) :
                      /\ permissions[i].tool = tool
                      /\ permissions[i].pathPattern = pattern
    IN  IF ~exists
        THEN Append(permissions, Permission(tool, pattern, at))
        ELSE permissions

\* ipcMain.handle('permissions:revoke') with ConfigStore.removePermission(
\* tool, pathPattern); pathPattern || '*'
removePermission(tool, pathPattern) ==
    LET pattern == IF pathPattern = <<>> THEN Star ELSE pathPattern
        keep(p) == ~(p.tool = tool /\ p.pathPattern = pattern)
    IN
    /\ runq = <<>>
    /\ allowedPermissions' = SelectSeq(allowedPermissions, keep)
    /\ last' = [op |-> "permissions:revoke", arg |-> pathPattern, inv |-> 0,
                res |-> "", tool |-> tool]
    /\ UNCHANGED <<authorizedFolders, now, files, cfg>>
    /\ UNCHANGED agentVars

\* ipcMain.handle('permissions:clear') with ConfigStore.clearAllPermissions()
clearAllPermissions ==
    /\ runq = <<>>
    /\ allowedPermissions' = <<>>
    /\ last' = [op |-> "permissions:clear", arg |-> <<>>, inv |-> 0,
                res |-> ""]
    /\ UNCHANGED <<authorizedFolders, now, files, cfg>>
    /\ UNCHANGED agentVars

\* ConfigStore.getFileTrustLevel(path): the trust level of the authorized
\* folder that contains the path, 'strict' when there is none
getFileTrustLevel(folders, path) ==
    LET holds(f) == f.kind = "obj" /\ StartsWith(resolve(path), resolve(f.path))
        found    == SelectSeq(folders, holds)
    IN  IF found = <<>> THEN "strict" ELSE found[1].trustLevel

\* isDangerousWrite taking every target for a new file
isDangerousWriteNever(path) == FALSE

\* isDangerousWrite(path): fs.existsSync(path)
isDangerousWrite(path) == path \in files

\* ------------------------------------------------------------------------
\* Messages, content blocks, tool inputs
\* ------------------------------------------------------------------------
MAX_ITERATIONS == 30
WATCHDOG_MS == 60000

\* the marker appended to interrupted text
INTERRUPTED == "[interrupted]"

NoInput  == [kind |-> "none", path |-> <<>>, command |-> <<>>, cwd |-> <<>>]
\* { error: "Invalid JSON input", raw }
Sentinel == [kind |-> "sentinel", path |-> <<>>, command |-> <<>>,
             cwd |-> <<>>]
PathInput(p)     == [kind |-> "args", path |-> p, command |-> <<>>,
                     cwd |-> <<>>]
CmdInput(c, cwd) == [kind |-> "args", path |-> <<>>, command |-> c,
                     cwd |-> cwd]

TextBlock(text) ==
    [type |-> "text", text |-> text, id |-> 0, name |-> "", input |-> NoInput]
ToolUseBlock(id, name, input) ==
    [type |-> "tool_use", text |-> <<>>, id |-> id, name |-> name,
     input |-> input]
ToolResultBlock(id, content) ==
    [type |-> "tool_result", tool_use_id |-> id, content |-> content]

UserMsg(kind)        == [role |-> "user", kind |-> kind, blocks |-> <<>>]
AssistantMsg(blocks) == [role |-> "assistant", kind |-> "blocks",
                         blocks |-> blocks]
ResultsMsg(results)  == [role |-> "user", kind |-> "results",
                         blocks |-> results]

\* ------------------------------------------------------------------------
\* Provider stream events
\* ------------------------------------------------------------------------
\* The JSON text of a tool input arrives in fragments.  A fragment is the
\* whole document of an input, its first or second half, or a broken piece.
Fragment(part, v) == [part |-> part, v |-> v]

JSONparseThrows(text) ==
    ~ \/ Len(text) = 1 /\ text[1].part = "whole"
      \/ /\ Len(text) = 2
         /\ text[1].part = "first"
         /\ text[2].part = "second"
         /\ text[1].v = text[2].v

JSONparse(text) == text[1].v

Chunk(type, blockType, id, name, deltaType, text, json) ==
    [type |-> type, blockType |-> blockType, id |-> id, name |-> name,
     deltaType |-> deltaType, text |-> text, json |-> json]

NoFragment == Fragment("none", NoInput)

BlockStart(blockType, id, name) ==
    Chunk("content_block_start", blockType, id, name, "", "", NoFragment)
TextDelta(t) ==
    Chunk("content_block_delta", "", 0, "", "text_delta", t, NoFragment)
ReasoningDelta(t) ==
    Chunk("content_block_delta", "", 0, "", "reasoning_content", t,
          NoFragment)
JsonDelta(f) ==
    Chunk("content_block_delta", "", 0, "", "input_json_delta", "", f)
BlockStop   == Chunk("content_block_stop", "", 0, "", "", "", NoFragment)
MessageStop == Chunk("message_stop", "", 0, "", "", "", NoFragment)

\* currentToolUse: null, or { id, name, input } with the input text so far
NoToolUse == [open |-> FALSE, id |-> 0, name |-> "", input |-> <<>>]

\* the stream assembler: finalContent, currentToolUse and textBuffer
Assembler(finalContent, currentToolUse, textBuffer) ==
    [finalContent |-> finalContent, currentToolUse |-> currentToolUse,
     textBuffer |-> textBuffer]

\* the switch on chunk.type that keeps the buffered text when a tool_use
\* block starts
handleChunkNoFlush(a, chunk) ==
    CASE chunk.type = "content_block_start" ->
           IF chunk.blockType = "tool_use"
           THEN Assembler(
                  a.finalContent,
                  [open |-> TRUE, id |-> chunk.id, name |-> chunk.name,
                   input |-> <<>>],
                  a.textBuffer)
           ELSE a
      [] chunk.type = "content_block_delta" ->
           IF chunk.deltaType = "text_delta"
           THEN Assembler(a.finalContent, a.currentToolUse,
                          Append(a.textBuffer, chunk.text))
           ELSE IF chunk.deltaType = "reasoning_content"
           THEN a
           ELSE IF chunk.deltaType = "input_json_delta"
                   /\ a.currentToolUse.open
           THEN Assembler(a.finalContent,
                          [a.currentToolUse EXCEPT
                              !.input = Append(@, chunk.json)],
                          a.textBuffer)
           ELSE a
      [] chunk.type = "content_block_stop" ->
           IF a.currentToolUse.open
           THEN Assembler(
                  Append(a.finalContent,
                         ToolUseBlock(a.currentToolUse.id,
                                      a.currentToolUse.name,
                                      IF JSONparseThrows(a.currentToolUse.input)
                                      THEN Sentinel
                                      ELSE JSONparse(a.currentToolUse.input))),
                  NoToolUse,
                  a.textBuffer)
           ELSE IF a.textBuffer # <<>>
           THEN Assembler(Append(a.finalContent, TextBlock(a.textBuffer)),
                          a.currentToolUse, <<>>)
           ELSE a
      [] chunk.type = "message_stop" ->
           IF a.textBuffer # <<>>
           THEN Assembler(Append(a.finalContent, TextBlock(a.textBuffer)),
                          a.currentToolUse, <<>>)
           ELSE a
      [] OTHER -> a

\* the switch on chunk.type that drops a tool_use block whose JSON text
\* does not parse
handleChunkDropsInvalid(a, chunk) ==
    CASE chunk.type = "content_block_start" ->
           IF chunk.blockType = "tool_use"
           THEN Assembler(
                  IF a.textBuffer # <<>>
                  THEN Append(a.finalContent, TextBlock(a.textBuffer))
                  ELSE a.finalContent,
                  [open |-> TRUE, id |-> chunk.id, name |-> chunk.name,
                   input |-> <<>>],
                  <<>>)
           ELSE a
      [] chunk.type = "content_block_delta" ->
           IF chunk.deltaType = "text_delta"
           THEN Assembler(a.finalContent, a.currentToolUse,
                          Append(a.textBuffer, chunk.text))
           ELSE IF chunk.deltaType = "reasoning_content"
           THEN a
           ELSE IF chunk.deltaType = "input_json_delta"
                   /\ a.currentToolUse.open
           THEN Assembler(a.finalContent,
                          [a.currentToolUse EXCEPT
                              !.input = Append(@, chunk.json)],
                          a.textBuffer)
           ELSE a
      [] chunk.type = "content_block_stop" ->
           IF a.currentToolUse.open
           THEN Assembler(
                  IF JSONparseThrows(a.currentToolUse.input)
                  THEN a.finalContent
                  ELSE Append(a.finalContent,
                              ToolUseBlock(a.currentToolUse.id,
                                           a.currentToolUse.name,
                                           JSONparse(a.currentToolUse.input))),
                  NoToolUse,
                  a.textBuffer)
           ELSE IF a.textBuffer # <<>>
           THEN Assembler(Append(a.finalContent, TextBlock(a.textBuffer)),
                          a.currentToolUse, <<>>)
           ELSE a
      [] chunk.type = "message_stop" ->
           IF a.textBuffer # <<>>
           THEN Assembler(Append(a.finalContent, TextBlock(a.textBuffer)),
                          a.currentToolUse, <<>>)
           ELSE a
      [] OTHER -> a

\* the switch on chunk.type of runLoop, applied to one chunk
handleChunk(a, chunk) ==
    CASE chunk.type = "content_block_start" ->
           IF chunk.blockType = "tool_use"
           THEN Assembler(
                  IF a.textBuffer # <<>>
                  THEN Append(a.finalContent, TextBlock(a.textBuffer))
                  ELSE a.finalContent,
                  [open |-> TRUE, id |-> chunk.id, name |-> chunk.name,
                   input |-> <<>>],
                  <<>>)
           ELSE a
      [] chunk.type = "content_block_delta" ->
           IF chunk.deltaType = "text_delta"
           THEN Assembler(a.finalContent, a.currentToolUse,
                          Append(a.textBuffer, chunk.text))
           ELSE IF chunk.deltaType = "reasoning_content"
           THEN a
           ELSE IF chunk.deltaType = "input_json_delta"
                   /\ a.currentToolUse.open
           THEN Assembler(a.finalContent,
                          [a.currentToolUse EXCEPT
                              !.input = Append(@, chunk.json)],
                          a.textBuffer)
           ELSE a
      [] chunk.type = "content_block_stop" ->
           IF a.currentToolUse.open
           THEN Assembler(
                  Append(a.finalContent,
                         ToolUseBlock(a.currentToolUse.id,
                                      a.currentToolUse.name,
                                      IF JSONparseThrows(a.currentToolUse.input)
                                      THEN Sentinel
                                      ELSE JSONparse(a.currentToolUse.input))),
                  NoToolUse,
                  a.textBuffer)
           ELSE IF a.textBuffer # <<>>
           THEN Assembler(Append(a.finalContent, TextBlock(a.textBuffer)),
                          a.currentToolUse, <<>>)
           ELSE a
      [] chunk.type = "message_stop" ->
           IF a.textBuffer # <<>>
           THEN Assembler(Append(a.finalContent, TextBlock(a.textBuffer)),
                          a.currentToolUse, <<>>)
           ELSE a
      [] OTHER -> a

\* ------------------------------------------------------------------------
\* Command classification (AgentRuntime.ts, module level)
\* ------------------------------------------------------------------------
SAFE_COMMANDS == {
    <<"p","y","t","h","o","n">>, <<"p","y","t","h","o","n","3">>,
    <<"n","o","d","e">>, <<"n","p","m">>, <<"p","i","p">>,
    <<"p","i","p","3">>, <<"g","i","t">>, <<"l","s">>, <<"c","a","t">>,
    <<"h","e","a","d">>, <<"t","a","i","l">>, <<"g","r","e","p">>,
    <<"f","i","n","d">>, <<"e","c","h","o">>, <<"p","w","d">>, <<"c","d">>,
    <<"l","s"," ","-","l","a">>, <<"l","s"," ","-","l">>,
    <<"l","s"," ","-","a">>, <<"t","r","e","e">>, <<"w","c">>,
    <<"s","o","r","t">>, <<"u","n","i","q">>, <<"d","i","f","f">>,
    <<"p","a","t","c","h">>, <<"t","a","r">>, <<"u","n","z","i","p">>,
    <<"z","i","p">>, <<"g","z","i","p">>, <<"g","u","n","z","i","p">>,
    <<"b","u","n","z","i","p","2">>, <<"c","u","r","l">>,
    <<"w","g","e","t">>, <<"p","i","n","g">>,
    <<"t","r","a","c","e","r","o","u","t","e">>,
    <<"n","e","t","s","t","a","t">>, <<"p","s">>, <<"t","o","p">>,
    <<"h","t","o","p">> }

EndsWith(s, w) ==
    /\ Len(w) <= Len(s)
    /\ \A k \in 1..Len(w) : s[Len(s) - Len(w) + k] = w[k]

\* trimmedCmd.split(' ')[0]
FirstToken(s) ==
    IF \A i \in 1..Len(s) : s[i] # " "
    THEN s
    ELSE SubSeq(s, 1, (CHOOSE i \in 1..Len(s) :
                          s[i] = " " /\ \A j \in 1..(i-1) : s[j] # " ") - 1)

LowerString(s) == [i \in 1..Len(s) |-> toLowerCase(s[i])]

\* /^git\s+(log|show|diff|status|branch|remote|ls-files)/i
GitReadOnly ==
    Lit(<<"g","i","t">>) \o <<SPlus>> \o <<Alt({
        <<"l","o","g">>,
        <<"s","h","o","w">>,
        <<"d","i","f","f">>,
        <<"s","t","a","t","u","s">>,
        <<"b","r","a","n","c","h">>,
        <<"r","e","m","o","t","e">>,
        <<"l","s","-","f","i","l","e","s">> })>>

isSafeCommand(command) ==
    LET trimmedCmd == trim(command)
        baseCmd    == LowerString(FirstToken(trimmedCmd))
    IN  IF \E safe \in SAFE_COMMANDS :
              \/ baseCmd = safe
              \/ StartsWith(trimmedCmd, safe \o <<" ">>)
        THEN TRUE
        ELSE IF \E pat \in DANGEROUS_PATTERNS : test(pat, trimmedCmd)
        THEN FALSE
        ELSE IF MatchFrom(trimmedCmd, 1, GitReadOnly, 1)
        THEN TRUE
        ELSE /\ baseCmd \in {<<"p","y","t","h","o","n">>, <<"p","y","t","h","o","n","3">>,
                            <<"n","o","d","e">>}
             /\ \/ EndsWith(trimmedCmd, <<".","p","y">>)
                \/ EndsWith(trimmedCmd, <<".","j","s">>)
                \/ EndsWith(trimmedCmd, <<".","t","s">>)

\* ------------------------------------------------------------------------
\* AgentRuntime: invocations of processUserMessage
\* ------------------------------------------------------------------------
Channels == {"agent:aborted", "agent:done", "agent:error",
             "agent:confirm-request", "agent:artifact-created"}

broadcast(counts, channel) == [counts EXCEPT ![channel] = @ + 1]

IdleProc ==
    [pc |-> "idle", iterationCount |-> 0, keepGoing |-> TRUE,
     folders |-> <<>>, signal |-> 0, stream |-> <<>>,
     asm |-> Assembler(<<>>, NoToolUse, <<>>),
     toolUses |-> <<>>, idx |-> 0, toolResults |-> <<>>, approved |-> FALSE,
     \* observations: the text buffered when abort() hit the stream, and the
     \* position in the batch when abort() hit a tool call
     partial |-> <<>>, abortedAt |-> 0]

Invocations == 1..MaxCalls

\* this.abortController?.signal.aborted
AbortedNow == abortController # 0 /\ abortController \in aborted

\* a provider response: leading text and a batch of tool calls
ToolCall(name, input) == [name |-> name, input |-> input]
Response(text, tools) == [text |-> text, tools |-> tools]

ToolId(req, k) == req * 10 + k

RECURSIVE ToolChunks(_, _, _)
ToolChunks(tools, k, req) ==
    IF k > Len(tools) THEN <<>>
    ELSE << BlockStart("tool_use", ToolId(req, k), tools[k].name),
            JsonDelta(Fragment("whole", tools[k].input)),
            BlockStop >> \o ToolChunks(tools, k + 1, req)

\* the events of a stream given item by item: a text item is one text
\* delta, a tool item is the start of a tool_use block, one delta per
\* fragment of its JSON text, and the stop of the block
RECURSIVE ItemChunks(_, _, _)
ItemChunks(items, k, req) ==
    IF k > Len(items) THEN <<>>
    ELSE (IF items[k].kind = "text"
          THEN <<TextDelta(items[k].text)>>
          ELSE <<BlockStart("tool_use", ToolId(req, k), items[k].name)>>
                   \o [i \in 1..Len(items[k].json) |->
                          JsonDelta(items[k].json[i])]
                   \o <<BlockStop>>)
         \o ItemChunks(items, k + 1, req)

\* the event stream of a response to request number req
ResponseChunks(r, req) ==
    IF "items" \in DOMAIN r
    THEN ItemChunks(r.items, 1, req) \o <<MessageStop>>
    ELSE [i \in 1..Len(r.text) |-> TextDelta(r.text[i])]
             \o ToolChunks(r.tools, 1, req) \o <<MessageStop>>

\* processUserMessage whose watchdog fires at 60 seconds sharp
ProcessUserMessageEarly(inv) ==
    /\ runq = <<>>
    /\ inv <= cfg.maxCalls
    /\ proc[inv].pc = "idle"
    /\ \A j \in 1..(inv - 1) : proc[j].pc # "idle"
    /\ IF isProcessing /\ ~(now - lastProcessTime >= WATCHDOG_MS)
       THEN /\ proc' = [proc EXCEPT ![inv].pc = "rejected"]
            /\ UNCHANGED last
            /\ UNCHANGED <<lastProcessTime, isProcessing, abortController>>
       ELSE /\ lastProcessTime' = now
            /\ isProcessing' = TRUE
            /\ abortController' = inv
            /\ proc' = [proc EXCEPT ![inv].pc = "loadSkills"]
            /\ UNCHANGED last
    /\ UNCHANGED <<authorizedFolders, allowedPermissions, now, files, history,
                   artifacts, aborted, pendingConfirmations, runq, sent,
                   effects, nReq, nextConfirm, cfg>>

\* processUserMessage(input), up to its first await
ProcessUserMessage(inv) ==
    /\ runq = <<>>
    /\ inv <= cfg.maxCalls
    /\ proc[inv].pc = "idle"
    /\ \A j \in 1..(inv - 1) : proc[j].pc # "idle"
    /\ IF isProcessing /\ ~(now - lastProcessTime > WATCHDOG_MS)
       THEN /\ proc' = [proc EXCEPT ![inv].pc = "rejected"]
            /\ UNCHANGED last
            /\ UNCHANGED <<lastProcessTime, isProcessing, abortController>>
       ELSE /\ lastProcessTime' = now
            /\ isProcessing' = TRUE
            /\ abortController' = inv
            /\ proc' = [proc EXCEPT ![inv].pc = "loadSkills"]
            /\ UNCHANGED last
    /\ UNCHANGED <<authorizedFolders, allowedPermissions, now, files, history,
                   artifacts, aborted, pendingConfirmations, runq, sent,
                   effects, nReq, nextConfirm, cfg>>

\* loadSkills and loadClients return: the user message is pushed
LoadDone(inv) ==
    /\ runq = <<>>
    /\ proc[inv].pc = "loadSkills"
    /\ history' = Append(history, UserMsg("text"))
    /\ proc' = [proc EXCEPT ![inv].pc = "loopHead",
                            ![inv].keepGoing = TRUE,
                            ![inv].iterationCount = 0]
    /\ runq' = <<inv>>
    /\ UNCHANGED last
    /\ UNCHANGED <<authorizedFolders, allowedPermissions, now, files,
                   artifacts, abortController, aborted, isProcessing,
                   pendingConfirmations, lastProcessTime, sent, effects, nReq,
                   nextConfirm, cfg>>

\* runLoop whose while header tests keepGoing only
LoopHeadUnbounded(inv) ==
    /\ runq # <<>> /\ Head(runq) = inv
    /\ proc[inv].pc = "loopHead"
    /\ IF proc[inv].keepGoing
       THEN IF AbortedNow
            THEN /\ proc' = [proc EXCEPT ![inv].iterationCount = @ + 1,
                                         ![inv].pc = "finally"]
                 /\ UNCHANGED runq
            ELSE /\ proc' = [proc EXCEPT ![inv].iterationCount = @ + 1,
                                         ![inv].pc = "getTools"]
                 /\ runq' = Tail(runq)
       ELSE /\ proc' = [proc EXCEPT ![inv].pc = "finally"]
            /\ UNCHANGED runq
    /\ UNCHANGED last
    /\ UNCHANGED <<authorizedFolders, allowedPermissions, now, files, history,
                   artifacts, abortController, aborted, isProcessing,
                   pendingConfirmations, lastProcessTime, sent, effects, nReq,
                   nextConfirm, cfg>>

\* runLoop: the while header and the abort check of an iteration
LoopHead(inv) ==
    /\ runq # <<>> /\ Head(runq) = inv
    /\ proc[inv].pc = "loopHead"
    /\ IF proc[inv].keepGoing /\ proc[inv].iterationCount < MAX_ITERATIONS
       THEN IF AbortedNow
            THEN /\ proc' = [proc EXCEPT ![inv].iterationCount = @ + 1,
                                         ![inv].pc = "finally"]
                 /\ UNCHANGED runq
            ELSE /\ proc' = [proc EXCEPT ![inv].iterationCount = @ + 1,
                                         ![inv].pc = "getTools"]
                 /\ runq' = Tail(runq)
       ELSE /\ proc' = [proc EXCEPT ![inv].pc = "finally"]
            /\ UNCHANGED runq
    /\ UNCHANGED last
    /\ UNCHANGED <<authorizedFolders, allowedPermissions, now, files, history,
                   artifacts, abortController, aborted, isProcessing,
                   pendingConfirmations, lastProcessTime, sent, effects, nReq,
                   nextConfirm, cfg>>

\* runLoop: mcpService.getTools() returns, the folders are read and the
\* provider request is issued with the signal of the current controller
IssueRequest(inv) ==
    /\ runq = <<>>
    /\ proc[inv].pc = "getTools"
    /\ nReq < cfg.maxRequests
    /\ IF getAuthorizedFoldersThrows(authorizedFolders)
       THEN /\ sent' = broadcast(sent, "agent:error")
            /\ proc' = [proc EXCEPT ![inv].pc = "finally"]
            /\ runq' = <<inv>>
            /\ UNCHANGED last
            /\ UNCHANGED nReq
       ELSE /\ nReq' = nReq + 1
            /\ proc' = [proc EXCEPT
                  ![inv].folders = getAuthorizedFolders(authorizedFolders),
                  ![inv].signal = abortController,
                  ![inv].pc = "awaitCreate"]
            /\ UNCHANGED last
            /\ UNCHANGED <<sent, runq>>
    /\ UNCHANGED <<authorizedFolders, allowedPermissions, now, files, history,
                   artifacts, abortController, aborted, isProcessing,
                   pendingConfirmations, lastProcessTime, effects,
                   nextConfirm, cfg>>

\* messages.create resolves with a stream
ProviderRespond(inv) ==
    /\ runq = <<>>
    /\ proc[inv].pc = "awaitCreate"
    /\ proc[inv].signal \notin aborted
    /\ \E r \in cfg.menu :
          proc' = [proc EXCEPT
              ![inv].stream = ResponseChunks(r, nReq),
              ![inv].asm = Assembler(<<>>, NoToolUse, <<>>),
              ![inv].pc = "streaming"]
    /\ UNCHANGED last
    /\ UNCHANGED <<authorizedFolders, allowedPermissions, now, files, history,
                   artifacts, abortController, aborted, isProcessing,
                   pendingConfirmations, lastProcessTime, runq, sent, effects,
                   nReq, nextConfirm, cfg>>

\* the catch block of runLoop without the branch for the content-safety
\* rejection: the error is rethrown like any other
ProviderErrorNoRetry(inv) ==
    /\ runq = <<>>
    /\ proc[inv].pc \in {"awaitCreate", "streaming"}
    /\ \E e \in cfg.errors \cup {"abort"} :
          /\ e = "abort" <=> proc[inv].signal \in aborted
          /\ IF AbortedNow \/ e = "abort"
             THEN /\ proc' = [proc EXCEPT ![inv].pc = "finally"]
                  /\ UNCHANGED <<history, sent>>
             ELSE /\ sent' = broadcast(sent, "agent:error")
                  /\ proc' = [proc EXCEPT ![inv].pc = "finally"]
                  /\ UNCHANGED history
          /\ UNCHANGED last
    /\ runq' = <<inv>>
    /\ UNCHANGED <<authorizedFolders, allowedPermissions, now, files,
                   artifacts, abortController, aborted, isProcessing,
                   pendingConfirmations, lastProcessTime, effects, nReq,
                   nextConfirm, cfg>>

\* the catch blocks without the broadcast of a rethrown error
ProviderErrorSilent(inv) ==
    /\ runq = <<>>
    /\ proc[inv].pc \in {"awaitCreate", "streaming"}
    /\ \E e \in cfg.errors \cup {"abort"} :
          /\ e = "abort" <=> proc[inv].signal \in aborted
          /\ IF AbortedNow \/ e = "abort"
             THEN /\ proc' = [proc EXCEPT ![inv].pc = "finally"]
                  /\ UNCHANGED <<history, sent>>
             ELSE IF e = "sensitive"
             THEN /\ history' = Append(history, UserMsg("corrective"))
                  /\ proc' = [proc EXCEPT ![inv].pc = "loopHead"]
                  /\ UNCHANGED sent
             ELSE /\ proc' = [proc EXCEPT ![inv].pc = "finally"]
                  /\ UNCHANGED <<history, sent>>
          /\ UNCHANGED last
    /\ runq' = <<inv>>
    /\ UNCHANGED <<authorizedFolders, allowedPermissions, now, files,
                   artifacts, abortController, aborted, isProcessing,
                   pendingConfirmations, lastProcessTime, effects, nReq,
                   nextConfirm, cfg>>

\* the catch block of runLoop that recognises an abort by the current
\* controller only, without the test of the error's name and message
ProviderErrorControllerOnly(inv) ==
    /\ runq = <<>>
    /\ proc[inv].pc \in {"awaitCreate", "streaming"}
    /\ \E e \in cfg.errors \cup {"abort"} :
          /\ e = "abort" <=> proc[inv].signal \in aborted
          /\ IF AbortedNow
             THEN /\ proc' = [proc EXCEPT ![inv].pc = "finally"]
                  /\ UNCHANGED <<history, sent>>
             ELSE IF e = "sensitive"
             THEN /\ history' = Append(history, UserMsg("corrective"))
                  /\ proc' = [proc EXCEPT ![inv].pc = "loopHead"]
                  /\ UNCHANGED sent
             ELSE /\ sent' = broadcast(sent, "agent:error")
                  /\ proc' = [proc EXCEPT ![inv].pc = "finally"]
                  /\ UNCHANGED history
          /\ UNCHANGED last
    /\ runq' = <<inv>>
    /\ UNCHANGED <<authorizedFolders, allowedPermissions, now, files,
                   artifacts, abortController, aborted, isProcessing,
                   pendingConfirmations, lastProcessTime, effects, nReq,
                   nextConfirm, cfg>>

\* messages.create or the stream throws; the catch block of runLoop and,
\* for a rethrown error, the catch block of processUserMessage
ProviderError(inv) ==
    /\ runq = <<>>
    /\ proc[inv].pc \in {"awaitCreate", "streaming"}
    /\ \E e \in cfg.errors \cup {"abort"} :
          /\ e = "abort" <=> proc[inv].signal \in aborted
          /\ IF AbortedNow \/ e = "abort"
             THEN /\ proc' = [proc EXCEPT ![inv].pc = "finally"]
                  /\ UNCHANGED <<history, sent>>
             ELSE IF e = "sensitive"
             THEN /\ history' = Append(history, UserMsg("corrective"))
                  /\ proc' = [proc EXCEPT ![inv].pc = "loopHead"]
                  /\ UNCHANGED sent
             ELSE /\ sent' = broadcast(sent, "agent:error")
                  /\ proc' = [proc EXCEPT ![inv].pc = "finally"]
                  /\ UNCHANGED history
          /\ UNCHANGED last
    /\ runq' = <<inv>>
    /\ UNCHANGED <<authorizedFolders, allowedPermissions, now, files,
                   artifacts, abortController, aborted, isProcessing,
                   pendingConfirmations, lastProcessTime, effects, nReq,
                   nextConfirm, cfg>>

\* one chunk of the stream arrives
StreamChunk(inv) ==
    /\ runq = <<>>
    /\ proc[inv].pc = "streaming"
    /\ proc[inv].signal \notin aborted
    /\ proc[inv].stream # <<>>
    /\ IF AbortedNow
       THEN /\ proc' = [proc EXCEPT ![inv].pc = "postStream",
                                    ![inv].stream = <<>>]
            /\ runq' = <<inv>>
       ELSE /\ proc' = [proc EXCEPT
                  ![inv].asm = handleChunk(@, Head(proc[inv].stream)),
                  ![inv].stream = Tail(@)]
            /\ UNCHANGED runq
    /\ UNCHANGED last
    /\ UNCHANGED <<authorizedFolders, allowedPermissions, now, files, history,
                   artifacts, abortController, aborted, isProcessing,
                   pendingConfirmations, lastProcessTime, sent, effects, nReq,
                   nextConfirm, cfg>>

\* the stream ends: after its last chunk, or silently once its signal is
\* aborted
StreamEnd(inv) ==
    /\ runq = <<>>
    /\ proc[inv].pc = "streaming"
    /\ proc[inv].stream = <<>> \/ proc[inv].signal \in aborted
    /\ proc' = [proc EXCEPT ![inv].pc = "postStream", ![inv].stream = <<>>]
    /\ runq' = <<inv>>
    /\ UNCHANGED last
    /\ UNCHANGED <<authorizedFolders, allowedPermissions, now, files, history,
                   artifacts, abortController, aborted, isProcessing,
                   pendingConfirmations, lastProcessTime, sent, effects, nReq,
                   nextConfirm, cfg>>

IsToolUse(b) == b.type = "tool_use"

\* runLoop after the for-await loop: the abort branch, the final flush, the
\* push of the assistant message and the selection of the tool uses
PostStream(inv) ==
    LET a == proc[inv].asm IN
    /\ runq # <<>> /\ Head(runq) = inv
    /\ proc[inv].pc = "postStream"
    /\ IF AbortedNow
       THEN LET finalContent ==
                    IF a.textBuffer # <<>>
                    THEN Append(a.finalContent,
                                TextBlock(Append(a.textBuffer, INTERRUPTED)))
                    ELSE a.finalContent
            IN  /\ history' = IF finalContent # <<>>
                              THEN Append(history, AssistantMsg(finalContent))
                              ELSE history
                /\ proc' = [proc EXCEPT ![inv].pc = "finally"]
       ELSE LET finalContent ==
                    IF a.textBuffer # <<>>
                    THEN Append(a.finalContent, TextBlock(a.textBuffer))
                    ELSE a.finalContent
                toolUses == SelectSeq(finalContent, IsToolUse)
            IN  IF finalContent # <<>>
                THEN /\ history' = Append(history, AssistantMsg(finalContent))
                     /\ IF toolUses # <<>>
                        THEN proc' = [proc EXCEPT
                                 ![inv].toolUses = toolUses,
                                 ![inv].toolResults = <<>>,
                                 ![inv].idx = 1,
                                 ![inv].asm = Assembler(<<>>, NoToolUse, <<>>),
                                 ![inv].pc = "toolHead"]
                        ELSE proc' = [proc EXCEPT
                                 ![inv].keepGoing = FALSE,
                                 ![inv].asm = Assembler(<<>>, NoToolUse, <<>>),
                                 ![inv].pc = "loopHead"]
                ELSE /\ proc' = [proc EXCEPT ![inv].keepGoing = FALSE,
                                             ![inv].pc = "loopHead"]
                     /\ UNCHANGED history
    /\ UNCHANGED last
    /\ UNCHANGED <<authorizedFolders, allowedPermissions, now, files,
                   artifacts, abortController, aborted, isProcessing,
                   pendingConfirmations, lastProcessTime, runq, sent, effects,
                   nReq, nextConfirm, cfg>>

\* ------------------------------------------------------------------------
\* AgentRuntime: tool dispatch
\* ------------------------------------------------------------------------
CurrentTool(inv) == proc[inv].toolUses[proc[inv].idx]

\* the end of one pass of the for loop that puts the result in front of
\* the earlier ones
FinishedPrepends(p, result, threw) ==
    LET toolUse == p.toolUses[p.idx]
        content == IF ~threw /\ toolUse.input.kind = "sentinel"
                   THEN "InvalidJSON" ELSE result
    IN  [p EXCEPT !.toolResults =
                      <<ToolResultBlock(toolUse.id, content)>> \o @,
                  !.idx = @ + 1,
                  !.approved = FALSE,
                  !.pc = "toolHead"]

\* the end of one pass of the for loop over toolUses: the parse-error check
\* (skipped when the dispatch threw) and toolResults.push
Finished(p, result, threw) ==
    LET toolUse == p.toolUses[p.idx]
        content == IF ~threw /\ toolUse.input.kind = "sentinel"
                   THEN "InvalidJSON" ELSE result
    IN  [p EXCEPT !.toolResults =
                      Append(@, ToolResultBlock(toolUse.id, content)),
                  !.idx = @ + 1,
                  !.approved = FALSE,
                  !.pc = "toolHead"]

Effect(inv, toolUse, op, target) ==
    [inv |-> inv, id |-> toolUse.id, op |-> op, target |-> target,
     input |-> toolUse.input]

\* the head of the for loop over toolUses, and the push of the results
ToolHead(inv) ==
    LET p == proc[inv] IN
    /\ runq # <<>> /\ Head(runq) = inv
    /\ p.pc = "toolHead"
    /\ IF p.idx > Len(p.toolUses)
       THEN /\ history' = Append(history, ResultsMsg(p.toolResults))
            /\ proc' = [proc EXCEPT ![inv].pc = "loopHead",
                                    ![inv].toolUses = <<>>,
                                    ![inv].toolResults = <<>>,
                                    ![inv].abortedAt = 0,
                                    ![inv].idx = 0]
       ELSE /\ proc' = [proc EXCEPT ![inv].pc =
                           IF AbortedNow THEN "finally" ELSE "dispatch"]
            /\ UNCHANGED history
    /\ UNCHANGED last
    /\ UNCHANGED <<authorizedFolders, allowedPermissions, now, files,
                   artifacts, abortController, aborted, isProcessing,
                   pendingConfirmations, lastProcessTime, runq, sent, effects,
                   nReq, nextConfirm, cfg>>

\* requestConfirmation resolving true without asking the user
requestConfirmationSilent(inv, tool, path) ==
    /\ proc' = [proc EXCEPT ![inv].pc = "confirmed",
                            ![inv].approved = TRUE]
    /\ UNCHANGED <<pendingConfirmations, sent, nextConfirm, runq>>

\* requestConfirmation without the test of the stored permissions
requestConfirmationAlwaysAsks(inv, tool, path) ==
    /\ pendingConfirmations' =
          Append(pendingConfirmations,
                 [id |-> nextConfirm + 1, inv |-> inv, tool |-> tool,
                  path |-> path])
    /\ nextConfirm' = nextConfirm + 1
    /\ sent' = broadcast(sent, "agent:confirm-request")
    /\ proc' = [proc EXCEPT ![inv].pc = "awaitConfirm"]
    /\ runq' = Tail(runq)

\* requestConfirmation(tool, description, args) called by invocation inv;
\* path is args.path || args.cwd
requestConfirmation(inv, tool, path) ==
    IF hasPermission(allowedPermissions, tool, path)
    THEN /\ proc' = [proc EXCEPT ![inv].pc = "confirmed",
                                 ![inv].approved = TRUE]
         /\ UNCHANGED <<pendingConfirmations, sent, nextConfirm, runq>>
    ELSE /\ pendingConfirmations' =
               Append(pendingConfirmations,
                      [id |-> nextConfirm + 1, inv |-> inv, tool |-> tool,
                       path |-> path])
         /\ nextConfirm' = nextConfirm + 1
         /\ sent' = broadcast(sent, "agent:confirm-request")
         /\ proc' = [proc EXCEPT ![inv].pc = "awaitConfirm"]
         /\ runq' = Tail(runq)

autoApprove(inv) ==
    /\ proc' = [proc EXCEPT ![inv].pc = "confirmed", ![inv].approved = TRUE]
    /\ UNCHANGED <<pendingConfirmations, sent, nextConfirm, runq>>

\* read_file and list_dir
DispatchRead(inv) ==
    LET toolUse == CurrentTool(inv)
        args    == toolUse.input
    IN
    /\ runq # <<>> /\ Head(runq) = inv
    /\ proc[inv].pc = "dispatch"
    /\ toolUse.name \in {"read_file", "list_dir"}
    /\ IF args.kind = "sentinel"
          \/ getAuthorizedFoldersThrows(authorizedFolders)
       THEN /\ proc' = [proc EXCEPT ![inv] =
                           Finished(@, "ErrorExecuting", TRUE)]
            /\ UNCHANGED <<effects, runq>>
       ELSE IF ~isPathAuthorized(args.path, authorizedFolders)
       THEN /\ proc' = [proc EXCEPT ![inv] =
                           Finished(@, "NotAuthorized", FALSE)]
            /\ UNCHANGED <<effects, runq>>
       ELSE /\ effects' = effects \cup
                  {Effect(inv, toolUse,
                          IF toolUse.name = "read_file" THEN "readFile"
                          ELSE "listDir", args.path)}
            /\ proc' = [proc EXCEPT ![inv].pc = "awaitTool"]
            /\ runq' = Tail(runq)
    /\ UNCHANGED last
    /\ UNCHANGED <<authorizedFolders, allowedPermissions, now, files, history,
                   artifacts, abortController, aborted, isProcessing,
                   pendingConfirmations, lastProcessTime, sent, nReq,
                   nextConfirm, cfg>>

\* write_file asking for the confirmation before the path check
DispatchWriteConfirmsFirst(inv) ==
    LET toolUse    == CurrentTool(inv)
        args       == toolUse.input
        trustLevel == getFileTrustLevel(authorizedFolders, args.path)
        isNewFile  == ~isDangerousWrite(args.path)
    IN
    /\ runq # <<>> /\ Head(runq) = inv
    /\ proc[inv].pc = "dispatch"
    /\ toolUse.name = "write_file"
    /\ IF args.kind = "sentinel"
          \/ getAuthorizedFoldersThrows(authorizedFolders)
       THEN /\ proc' = [proc EXCEPT ![inv] =
                           Finished(@, "ErrorExecuting", TRUE)]
            /\ UNCHANGED <<pendingConfirmations, sent, nextConfirm, runq>>
       ELSE IF trustLevel = "trust"
       THEN autoApprove(inv)
       ELSE IF trustLevel = "standard" /\ isNewFile
       THEN autoApprove(inv)
       ELSE requestConfirmation(inv, toolUse.name, args.path)
    /\ UNCHANGED last
    /\ UNCHANGED <<authorizedFolders, allowedPermissions, now, files, history,
                   artifacts, abortController, aborted, isProcessing,
                   lastProcessTime, effects, nReq, cfg>>

\* write_file, up to the confirmation
DispatchWrite(inv) ==
    LET toolUse    == CurrentTool(inv)
        args       == toolUse.input
        trustLevel == getFileTrustLevel(authorizedFolders, args.path)
        isNewFile  == ~isDangerousWrite(args.path)
    IN
    /\ runq # <<>> /\ Head(runq) = inv
    /\ proc[inv].pc = "dispatch"
    /\ toolUse.name = "write_file"
    /\ IF args.kind = "sentinel"
          \/ getAuthorizedFoldersThrows(authorizedFolders)
       THEN /\ proc' = [proc EXCEPT ![inv] =
                           Finished(@, "ErrorExecuting", TRUE)]
            /\ UNCHANGED <<pendingConfirmations, sent, nextConfirm, runq>>
       ELSE IF ~isPathAuthorized(args.path, authorizedFolders)
       THEN /\ proc' = [proc EXCEPT ![inv] =
                           Finished(@, "NotAuthorized", FALSE)]
            /\ UNCHANGED <<pendingConfirmations, sent, nextConfirm, runq>>
       ELSE IF trustLevel = "trust"
       THEN autoApprove(inv)
       ELSE IF trustLevel = "standard"
       THEN IF isNewFile
            THEN autoApprove(inv)
            ELSE requestConfirmation(inv, toolUse.name, args.path)
       ELSE requestConfirmation(inv, toolUse.name, args.path)
    /\ UNCHANGED last
    /\ UNCHANGED <<authorizedFolders, allowedPermissions, now, files, history,
                   artifacts, abortController, aborted, isProcessing,
                   lastProcessTime, effects, nReq, cfg>>

\* the run_command branch whose trust tier approves safe commands only
DispatchRunCommandTrustSafeOnly(inv) ==
    LET toolUse    == CurrentTool(inv)
        args       == toolUse.input
        folders    == proc[inv].folders
        defaultCwd == IF folders # <<>> THEN folders[1] ELSE Cwd
        trustLevel == IF args.cwd # <<>>
                      THEN getFileTrustLevel(authorizedFolders, args.cwd)
                      ELSE getFileTrustLevel(authorizedFolders, defaultCwd)
    IN
    /\ runq # <<>> /\ Head(runq) = inv
    /\ proc[inv].pc = "dispatch"
    /\ toolUse.name = "run_command"
    /\ IF args.kind = "sentinel"
       THEN /\ proc' = [proc EXCEPT ![inv] =
                           Finished(@, "ErrorExecuting", TRUE)]
            /\ UNCHANGED <<pendingConfirmations, sent, nextConfirm, runq>>
       ELSE IF isDangerousCommand(args.command)
       THEN requestConfirmation(inv, toolUse.name, args.cwd)
       ELSE IF trustLevel \in {"trust", "standard"}
       THEN IF isSafeCommand(args.command)
            THEN autoApprove(inv)
            ELSE requestConfirmation(inv, toolUse.name, args.cwd)
       ELSE requestConfirmation(inv, toolUse.name, args.cwd)
    /\ UNCHANGED last
    /\ UNCHANGED <<authorizedFolders, allowedPermissions, now, files, history,
                   artifacts, abortController, aborted, isProcessing,
                   lastProcessTime, effects, nReq, cfg>>

\* run_command, up to the confirmation
DispatchRunCommand(inv) ==
    LET toolUse    == CurrentTool(inv)
        args       == toolUse.input
        folders    == proc[inv].folders
        defaultCwd == IF folders # <<>> THEN folders[1] ELSE Cwd
        trustLevel == IF args.cwd # <<>>
                      THEN getFileTrustLevel(authorizedFolders, args.cwd)
                      ELSE getFileTrustLevel(authorizedFolders, defaultCwd)
    IN
    /\ runq # <<>> /\ Head(runq) = inv
    /\ proc[inv].pc = "dispatch"
    /\ toolUse.name = "run_command"
    /\ IF args.kind = "sentinel"
       THEN /\ proc' = [proc EXCEPT ![inv] =
                           Finished(@, "ErrorExecuting", TRUE)]
            /\ UNCHANGED <<pendingConfirmations, sent, nextConfirm, runq>>
       ELSE IF isDangerousCommand(args.command)
       THEN requestConfirmation(inv, toolUse.name, args.cwd)
       ELSE IF trustLevel = "trust"
       THEN autoApprove(inv)
       ELSE IF trustLevel = "standard"
       THEN IF isSafeCommand(args.command)
            THEN autoApprove(inv)
            ELSE requestConfirmation(inv, toolUse.name, args.cwd)
       ELSE requestConfirmation(inv, toolUse.name, args.cwd)
    /\ UNCHANGED last
    /\ UNCHANGED <<authorizedFolders, allowedPermissions, now, files, history,
                   artifacts, abortController, aborted, isProcessing,
                   lastProcessTime, effects, nReq, cfg>>

\* tool names outside the four built-in tools
Skills == {"skill_pdf"}
McpManagement == {"mcp_get_all_servers", "mcp_add_server", "mcp_remove_server",
                  "mcp_toggle_server", "mcp_diagnose_server",
                  "mcp_retry_connection"}
\* toolUse.name.includes('__')
includesSeparator(name) == name \in {"srv__tool", "mcp__tool"}
\* toolUse.name.startsWith('mcp_')
startsWithMcp(name) == name \in McpManagement \cup {"mcp__tool", "mcp_other"}

\* skills, external tools, server management, unknown names
DispatchOther(inv) ==
    LET toolUse == CurrentTool(inv) IN
    /\ runq # <<>> /\ Head(runq) = inv
    /\ proc[inv].pc = "dispatch"
    /\ toolUse.name \notin {"read_file", "write_file", "list_dir",
                            "run_command"}
    /\ IF toolUse.name \in Skills
       THEN /\ proc' = [proc EXCEPT ![inv] = Finished(@, "Skill", FALSE)]
            /\ UNCHANGED <<effects, runq>>
       ELSE IF includesSeparator(toolUse.name)
       THEN /\ effects' = effects \cup
                              {Effect(inv, toolUse, "callTool", <<>>)}
            /\ proc' = [proc EXCEPT ![inv].pc = "awaitTool"]
            /\ runq' = Tail(runq)
       ELSE IF startsWithMcp(toolUse.name) /\ toolUse.name \in McpManagement
       THEN /\ effects' = effects \cup
                              {Effect(inv, toolUse, "mcpManagement", <<>>)}
            /\ proc' = [proc EXCEPT ![inv].pc = "awaitTool"]
            /\ runq' = Tail(runq)
       ELSE /\ proc' = [proc EXCEPT ![inv] = Finished(@, "Unknown", FALSE)]
            /\ UNCHANGED <<effects, runq>>
    /\ UNCHANGED last
    /\ UNCHANGED <<authorizedFolders, allowedPermissions, now, files, history,
                   artifacts, abortController, aborted, isProcessing,
                   pendingConfirmations, lastProcessTime, sent, nReq,
                   nextConfirm, cfg>>

\* the code after `approved` is known, for write_file and run_command
AfterConfirm(inv) ==
    LET p          == proc[inv]
        toolUse    == CurrentTool(inv)
        args       == toolUse.input
        defaultCwd == IF p.folders # <<>> THEN p.folders[1] ELSE Cwd
    IN
    /\ runq # <<>> /\ Head(runq) = inv
    /\ p.pc = "confirmed"
    /\ IF p.approved
       THEN /\ effects' = effects \cup
                  {IF toolUse.name = "write_file"
                   THEN Effect(inv, toolUse, "writeFile", args.path)
                   ELSE Effect(inv, toolUse, "runCommand",
                               IF args.cwd # <<>> THEN args.cwd
                               ELSE defaultCwd)}
            /\ proc' = [proc EXCEPT ![inv].pc = "awaitTool"]
            /\ runq' = Tail(runq)
       ELSE /\ proc' = [proc EXCEPT ![inv] =
                  IF toolUse.name = "write_file"
                  THEN Finished(@, "DeniedWrite", FALSE)
                  ELSE IF isDangerousCommand(args.command)
                  THEN [@ EXCEPT !.pc = "finally"]
                  ELSE Finished(@, "DeniedCommand", FALSE)]
            /\ UNCHANGED <<effects, runq>>
    /\ UNCHANGED last
    /\ UNCHANGED <<authorizedFolders, allowedPermissions, now, files, history,
                   artifacts, abortController, aborted, isProcessing,
                   pendingConfirmations, lastProcessTime, sent, nReq,
                   nextConfirm, cfg>>

\* the write_file branch that records the artifact although writeFile threw
ToolDoneRecordsFailedWrite(inv) ==
    LET p       == proc[inv]
        toolUse == CurrentTool(inv)
        args    == toolUse.input
    IN
    /\ runq = <<>>
    /\ p.pc = "awaitTool"
    /\ \E outcome \in cfg.outcomes :
          /\ IF outcome = "throws"
             THEN /\ proc' = [proc EXCEPT ![inv] =
                                 Finished(@, "ErrorExecuting", TRUE)]
                  /\ IF toolUse.name = "write_file"
                     THEN /\ artifacts' = Append(artifacts, args.path)
                          /\ sent' = broadcast(sent, "agent:artifact-created")
                          /\ UNCHANGED files
                     ELSE UNCHANGED <<files, artifacts, sent>>
             ELSE IF toolUse.name = "write_file"
             THEN /\ files' = files \cup {args.path}
                  /\ artifacts' = Append(artifacts, args.path)
                  /\ sent' = broadcast(sent, "agent:artifact-created")
                  /\ proc' = [proc EXCEPT ![inv] =
                                 Finished(@, "Output", FALSE)]
             ELSE IF toolUse.name = "run_command"
                     /\ isDangerousCommand(args.command)
             THEN /\ proc' = [proc EXCEPT ![inv].pc = "finally"]
                  /\ UNCHANGED <<files, artifacts, sent>>
             ELSE /\ proc' = [proc EXCEPT ![inv] =
                                 Finished(@, "Output", FALSE)]
                  /\ UNCHANGED <<files, artifacts, sent>>
          /\ UNCHANGED last
    /\ runq' = <<inv>>
    /\ UNCHANGED <<authorizedFolders, allowedPermissions, now, history,
                   abortController, aborted, isProcessing,
                   pendingConfirmations, lastProcessTime, effects, nReq,
                   nextConfirm, cfg>>

\* fsTools.readFile / writeFile / listDir / runCommand returns or throws
ToolDone(inv) ==
    LET p       == proc[inv]
        toolUse == CurrentTool(inv)
        args    == toolUse.input
    IN
    /\ runq = <<>>
    /\ p.pc = "awaitTool"
    /\ \E outcome \in cfg.outcomes :
          /\ IF outcome = "throws"
             THEN /\ proc' = [proc EXCEPT ![inv] =
                                 Finished(@, "ErrorExecuting", TRUE)]
                  /\ UNCHANGED <<files, artifacts, sent>>
             ELSE IF toolUse.name = "write_file"
             THEN /\ files' = files \cup {args.path}
                  /\ artifacts' = Append(artifacts, args.path)
                  /\ sent' = broadcast(sent, "agent:artifact-created")
                  /\ proc' = [proc EXCEPT ![inv] =
                                 Finished(@, "Output", FALSE)]
             ELSE IF toolUse.name = "run_command"
                     /\ isDangerousCommand(args.command)
             THEN /\ proc' = [proc EXCEPT ![inv].pc = "finally"]
                  /\ UNCHANGED <<files, artifacts, sent>>
             ELSE /\ proc' = [proc EXCEPT ![inv] =
                                 Finished(@, "Output", FALSE)]
                  /\ UNCHANGED <<files, artifacts, sent>>
          /\ UNCHANGED last
    /\ runq' = <<inv>>
    /\ UNCHANGED <<authorizedFolders, allowedPermissions, now, history,
                   abortController, aborted, isProcessing,
                   pendingConfirmations, lastProcessTime, effects, nReq,
                   nextConfirm, cfg>>

\* the finally block without the agent:done broadcast
FinallySilent(inv) ==
    /\ runq # <<>> /\ Head(runq) = inv
    /\ proc[inv].pc = "finally"
    /\ isProcessing' = FALSE
    /\ abortController' = 0
    /\ proc' = [proc EXCEPT ![inv] =
                   [IdleProc EXCEPT !.pc = "done",
                                    !.partial = proc[inv].partial]]
    /\ runq' = Tail(runq)
    /\ UNCHANGED last
    /\ UNCHANGED <<authorizedFolders, allowedPermissions, now, files, history,
                   artifacts, aborted, pendingConfirmations, lastProcessTime,
                   effects, nReq, nextConfirm, cfg, sent>>

\* the finally block of processUserMessage
Finally(inv) ==
    /\ runq # <<>> /\ Head(runq) = inv
    /\ proc[inv].pc = "finally"
    /\ isProcessing' = FALSE
    /\ abortController' = 0
    /\ sent' = broadcast(sent, "agent:done")
    /\ proc' = [proc EXCEPT ![inv] =
                   [IdleProc EXCEPT !.pc = "done",
                                    !.partial = proc[inv].partial]]
    /\ runq' = Tail(runq)
    /\ UNCHANGED last
    /\ UNCHANGED <<authorizedFolders, allowedPermissions, now, files, history,
                   artifacts, aborted, pendingConfirmations, lastProcessTime,
                   effects, nReq, nextConfirm, cfg>>

\* ------------------------------------------------------------------------
\* AgentRuntime: abort and confirmation responses
\* ------------------------------------------------------------------------
Owners(pending) == [i \in 1..Len(pending) |-> pending[i].inv]

\* resolve(approved) reaching every invocation that awaits a confirmation
ResolveEveryone(procs, pending, approved) ==
    [i \in Invocations |->
        IF procs[i].pc = "awaitConfirm" /\ pending # <<>>
        THEN [procs[i] EXCEPT !.pc = "confirmed", !.approved = approved]
        ELSE procs[i]]

\* resolve(approved) of every entry of a list of pending confirmations
Resolve(procs, pending, approved) ==
    [i \in Invocations |->
        IF \E k \in 1..Len(pending) : pending[k].inv = i
        THEN [procs[i] EXCEPT !.pc = "confirmed", !.approved = approved]
        ELSE procs[i]]

\* what abort() interrupts in the invocation that owns the controller
Observed(procs, owner) ==
    [i \in Invocations |->
        IF i # owner THEN procs[i]
        ELSE [procs[i] EXCEPT
                !.partial = IF procs[i].pc = "streaming"
                            THEN procs[i].asm.textBuffer ELSE @,
                !.abortedAt = IF procs[i].pc \in {"awaitTool", "awaitConfirm"}
                              THEN procs[i].idx ELSE @]]

\* abort() without pendingConfirmations.clear()
AbortKeepsPending ==
    /\ runq = <<>>
    /\ isProcessing
    /\ aborted' = IF abortController # 0
                  THEN aborted \cup {abortController} ELSE aborted
    /\ proc' = Resolve(Observed(proc, abortController),
                       pendingConfirmations, FALSE)
    /\ runq' = Owners(pendingConfirmations)
    /\ sent' = broadcast(sent, "agent:aborted")
    /\ isProcessing' = FALSE
    /\ abortController' = 0
    /\ UNCHANGED last
    /\ UNCHANGED <<authorizedFolders, allowedPermissions, now, files, history,
                   artifacts, lastProcessTime, effects, nReq, nextConfirm,
                   cfg, pendingConfirmations>>

\* AgentRuntime.abort() on a processing agent
Abort ==
    /\ runq = <<>>
    /\ isProcessing
    /\ aborted' = IF abortController # 0
                  THEN aborted \cup {abortController} ELSE aborted
    /\ proc' = Resolve(Observed(proc, abortController),
                       pendingConfirmations, FALSE)
    /\ runq' = Owners(pendingConfirmations)
    /\ pendingConfirmations' = <<>>
    /\ sent' = broadcast(sent, "agent:aborted")
    /\ isProcessing' = FALSE
    /\ abortController' = 0
    /\ UNCHANGED last
    /\ UNCHANGED <<authorizedFolders, allowedPermissions, now, files, history,
                   artifacts, lastProcessTime, effects, nReq, nextConfirm,
                   cfg>>

\* ipcMain.handle('agent:new-session') with AgentRuntime.clearHistory()
clearHistory ==
    /\ runq = <<>>
    /\ history' = <<>>
    /\ artifacts' = <<>>
    /\ last' = [op |-> "agent:new-session", arg |-> <<>>, inv |-> 0,
                res |-> ""]
    /\ UNCHANGED <<authorizedFolders, allowedPermissions, now, files,
                   abortController, aborted, isProcessing,
                   pendingConfirmations, lastProcessTime, proc, runq, sent,
                   effects, nReq, nextConfirm, cfg>>

\* handleConfirmResponse without pendingConfirmations.delete(id)
ConfirmResponseKeepsEntry(id, approved, remember, tool, path) ==
    LET isId(e)  == e.id = id
        notId(e) == e.id # id
        found    == SelectSeq(pendingConfirmations, isId)
    IN
    /\ runq = <<>>
    /\ allowedPermissions' =
          IF approved /\ remember /\ tool # ""
          THEN addPermission(allowedPermissions, tool, path, now)
          ELSE allowedPermissions
    /\ IF found # <<>>
       THEN /\ proc' = Resolve(proc, found, approved)
            /\ pendingConfirmations' = pendingConfirmations
            /\ runq' = Owners(found)
       ELSE UNCHANGED <<proc, pendingConfirmations, runq>>
    /\ last' = [op |-> "agent:confirm-response", arg |-> path, inv |-> id,
                res |-> IF approved THEN "true" ELSE "false",
                remember |-> remember, tool |-> tool]
    /\ UNCHANGED <<authorizedFolders, now, files, history, artifacts,
                   abortController, aborted, isProcessing, lastProcessTime,
                   sent, effects, nReq, nextConfirm, cfg>>

\* the confirm-response handler storing a permission for every approval
ConfirmResponseAlwaysRemembers(id, approved, remember, tool, path) ==
    LET isId(e)  == e.id = id
        notId(e) == e.id # id
        found    == SelectSeq(pendingConfirmations, isId)
    IN
    /\ runq = <<>>
    /\ allowedPermissions' =
          IF approved /\ tool # ""
          THEN addPermission(allowedPermissions, tool, path, now)
          ELSE allowedPermissions
    /\ IF found # <<>>
       THEN /\ proc' = Resolve(proc, found, approved)
            /\ pendingConfirmations' = SelectSeq(pendingConfirmations, notId)
            /\ runq' = Owners(found)
       ELSE UNCHANGED <<proc, pendingConfirmations, runq>>
    /\ last' = [op |-> "agent:confirm-response", arg |-> path, inv |-> id,
                res |-> IF approved THEN "true" ELSE "false",
                remember |-> remember, tool |-> tool]
    /\ UNCHANGED <<authorizedFolders, now, files, history, artifacts,
                   abortController, aborted, isProcessing, lastProcessTime,
                   sent, effects, nReq, nextConfirm, cfg>>

\* ipcMain.handle('agent:confirm-response') with AgentRuntime.
\* handleConfirmResponse(id, approved); id 0 is an id that is not pending,
\* tool "" is an undefined tool, path <<>> an undefined path
ConfirmResponse(id, approved, remember, tool, path) ==
    LET isId(e)  == e.id = id
        notId(e) == e.id # id
        found    == SelectSeq(pendingConfirmations, isId)
    IN
    /\ runq = <<>>
    /\ allowedPermissions' =
          IF approved /\ remember /\ tool # ""
          THEN addPermission(allowedPermissions, tool, path, now)
          ELSE allowedPermissions
    /\ IF found # <<>>
       THEN /\ proc' = Resolve(proc, found, approved)
            /\ pendingConfirmations' = SelectSeq(pendingConfirmations, notId)
            /\ runq' = Owners(found)
       ELSE UNCHANGED <<proc, pendingConfirmations, runq>>
    /\ last' = [op |-> "agent:confirm-response", arg |-> path, inv |-> id,
                res |-> IF approved THEN "true" ELSE "false",
                remember |-> remember, tool |-> tool]
    /\ UNCHANGED <<authorizedFolders, now, files, history, artifacts,
                   abortController, aborted, isProcessing, lastProcessTime,
                   sent, effects, nReq, nextConfirm, cfg>>

\* ------------------------------------------------------------------------
\* Scenarios
\* ------------------------------------------------------------------------
FolderA  == <<"/","a">>
FileIn   == <<"/","a","/","f">>
FileOut  == <<"/","x">>
RmRfCmd  == <<"r","m"," ","-","r","f"," ","/","x">>
LsCmd    == <<"l","s">>

ReadIn   == ToolCall("read_file", PathInput(FileIn))
ReadOut  == ToolCall("read_file", PathInput(FileOut))
ListOut  == ToolCall("list_dir", PathInput(FileOut))
WriteIn  == ToolCall("write_file", PathInput(FileIn))
WriteOut == ToolCall("write_file", PathInput(FileOut))
RmRf     == ToolCall("run_command", CmdInput(RmRfCmd, <<>>))
Ls       == ToolCall("run_command", CmdInput(LsCmd, <<>>))

\* responses of the provider in the concurrency scenario
MainMenu == { Response(<<"a", "b">>, <<>>),
              Response(<<"a">>, <<WriteIn, ReadIn>>) }

\* responses of the provider in the tool-policy scenario
ToolMenu == { Response(<<"a">>, <<>>),
              Response(<<"a">>, <<WriteIn, ReadIn>>),
              Response(<<>>, <<RmRf, ReadIn>>),
              Response(<<>>, <<ReadOut, Ls>>),
              Response(<<>>, <<ListOut, WriteOut>>) }

Config(maxCalls, maxRequests, maxNow, menu, errors, outcomes, remember) ==
    [maxCalls |-> maxCalls, maxRequests |-> maxRequests, maxNow |-> maxNow,
     menu |-> menu, errors |-> errors, outcomes |-> outcomes,
     remember |-> remember]

\* the state of a freshly constructed AgentRuntime
InitAgent ==
    /\ now = 0
    /\ history = <<>>
    /\ artifacts = <<>>
    /\ abortController = 0
    /\ aborted = {}
    /\ isProcessing = FALSE
    /\ pendingConfirmations = <<>>
    /\ lastProcessTime = 0
    /\ proc = [i \in Invocations |-> IdleProc]
    /\ runq = <<>>
    /\ sent = [c \in Channels |-> 0]
    /\ effects = {}
    /\ nReq = 0
    /\ nextConfirm = 0
    /\ last = [op |-> "none", arg |-> <<>>, inv |-> 0, res |-> ""]

PendingIds == {pendingConfirmations[i].id : i \in 1..Len(pendingConfirmations)}

\* the steps of the invocations of processUserMessage
AgentStep ==
    \/ \E inv \in Invocations : ProcessUserMessage(inv)
    \/ \E inv \in Invocations : LoadDone(inv)
    \/ \E inv \in Invocations : LoopHead(inv)
    \/ \E inv \in Invocations : IssueRequest(inv)
    \/ \E inv \in Invocations : ProviderRespond(inv)
    \/ \E inv \in Invocations : ProviderError(inv)
    \/ \E inv \in Invocations : StreamChunk(inv)
    \/ \E inv \in Invocations : StreamEnd(inv)
    \/ \E inv \in Invocations : PostStream(inv)
    \/ \E inv \in Invocations : ToolHead(inv)
    \/ \E inv \in Invocations : DispatchRead(inv)
    \/ \E inv \in Invocations : DispatchWrite(inv)
    \/ \E inv \in Invocations : AfterConfirm(inv)
    \/ \E inv \in Invocations : ToolDone(inv)
    \/ \E inv \in Invocations : Finally(inv)

UserStep ==
    \/ Abort
    \/ \E id \in PendingIds \cup {0}, approved \in BOOLEAN,
         remember \in cfg.remember :
          ConfirmResponse(id, approved, remember, "", <<>>)

\* Concurrency scenario: several invocations, abort, the watchdog
Init ==
    /\ InitAgent
    /\ authorizedFolders = <<ObjEntry(FolderA, "strict", 0)>>
    /\ allowedPermissions = <<>>
    /\ files = {}
    /\ cfg = Config(MaxCalls, MaxRequests, MaxNow, MainMenu, {},
                    {"returns"}, {FALSE})

Next ==
    \/ AgentStep
    \/ UserStep
    \/ Tick

Spec == Init /\ [][Next]_vars

\* Tool-policy scenario: one invocation, every trust tier, standing
\* permissions, the tools of ToolMenu
InitTools ==
    /\ InitAgent
    /\ authorizedFolders \in {<<ObjEntry(FolderA, t, 0)>> : t \in TrustLevels}
    /\ allowedPermissions \in {<<>>, <<Permission("run_command", Star, 0)>>}
    /\ files = {}
    /\ cfg = Config(1, MaxRequests, 0, ToolMenu, {"other"},
                    {"returns", "throws"}, {FALSE})

NextTools ==
    \/ AgentStep
    \/ \E inv \in Invocations : DispatchRunCommand(inv)
    \/ UserStep

SpecTools == InitTools /\ [][NextTools]_vars

\* Path scenario: isPathAuthorized applied to every short path
CheckPath(filePath) ==
    /\ last' = [op |-> "isPathAuthorized", arg |-> filePath, inv |-> 0,
                res |-> IF isPathAuthorized(filePath, authorizedFolders)
                        THEN "true" ELSE "false"]
    /\ UNCHANGED <<authorizedFolders, allowedPermissions, now, files, cfg>>
    /\ UNCHANGED agentVars

InitPath ==
    /\ InitAgent
    /\ authorizedFolders \in
          {<<ObjEntry(p, "strict", 0)>> : p \in {q \in Paths : q # <<>>}}
    /\ allowedPermissions = <<>>
    /\ files = {}
    /\ cfg = Config(0, 0, 0, {}, {}, {}, {FALSE})

NextPath == \E filePath \in Paths : CheckPath(filePath)

SpecPath == InitPath /\ [][NextPath]_vars

\* Folder scenario: the operations that change the authorized folders
InitFolders ==
    /\ InitAgent
    /\ authorizedFolders \in {<<>>, <<ObjEntry(FolderA, "trust", 0)>>}
    /\ allowedPermissions = <<>>
    /\ files = {}
    /\ cfg = Config(0, 0, 30001, {}, {}, {}, {FALSE})

NextFolders ==
    \/ \E folderPath \in FolderInputs : authorizeFolder(folderPath)
    \/ \E folderPath \in FolderInputs : revokeFolder(folderPath)
    \/ \E folderPath \in FolderInputs : IpcAuthorizeFolder(folderPath)
    \/ \E folderPath \in FolderInputs : IpcSetWorkingDir(folderPath)
    \/ Tick

SpecFolders == InitFolders /\ [][NextFolders]_vars

\* Approval-policy scenario: one invocation, every trust tier, with and
\* without a standing run_command permission, the target of the write
\* existing or not
GitPushCmd == <<"g","i","t"," ","p","u","s","h"," ","-","-","f","o","r","c","e">>
MakeCmd    == <<"m","a","k","e">>
GitPush    == ToolCall("run_command", CmdInput(GitPushCmd, <<>>))
Make       == ToolCall("run_command", CmdInput(MakeCmd, <<>>))

PolicyMenu == { Response(<<>>, <<WriteIn, Ls>>),
                Response(<<>>, <<GitPush, Make>>),
                Response(<<>>, <<ReadIn, RmRf>>),
                Response(<<>>, <<ToolCall("run_command",
                                          CmdInput(LsCmd, FileOut))>>) }

InitPolicy ==
    /\ InitAgent
    /\ authorizedFolders \in {<<ObjEntry(FolderA, t, 0)>> : t \in TrustLevels}
    /\ allowedPermissions \in {<<>>, <<Permission("run_command", Star, 0)>>}
    /\ files \in {{}, {FileIn}}
    \* one message and one provider request: each tool call of the answer
    \* is dispatched once, which is all the tier policy is about
    /\ cfg = Config(1, 1, 0, PolicyMenu, {"other"},
                    {"returns", "throws"}, {FALSE})

NextPolicy ==
    \/ AgentStep
    \/ \E inv \in Invocations : DispatchRunCommand(inv)
    \/ UserStep

SpecPolicy == InitPolicy /\ [][NextPolicy]_vars

\* Loop scenario: one invocation whose provider either answers every
\* request with a tool call only, or fails every request with the
\* recoverable content-safety error; more requests than MAX_ITERATIONS are
\* available.  Every provider call and every tool execution returns.
ToolOnly == Response(<<>>, <<ReadIn>>)

InitLoop ==
    /\ InitAgent
    /\ authorizedFolders = <<ObjEntry(FolderA, "strict", 0)>>
    /\ allowedPermissions = <<>>
    /\ files = {}
    /\ cfg \in { Config(1, MAX_ITERATIONS + 2, 0, {ToolOnly}, {},
                        {"returns"}, {FALSE}),
                 Config(1, MAX_ITERATIONS + 2, 0, {}, {"sensitive"},
                        {"returns"}, {FALSE}) }

\* the steps that continue an accepted invocation
LoopProgress ==
    \/ \E inv \in Invocations : LoadDone(inv)
    \/ \E inv \in Invocations : LoopHead(inv)
    \/ \E inv \in Invocations : IssueRequest(inv)
    \/ \E inv \in Invocations : ProviderRespond(inv)
    \/ \E inv \in Invocations : ProviderError(inv)
    \/ \E inv \in Invocations : StreamChunk(inv)
    \/ \E inv \in Invocations : StreamEnd(inv)
    \/ \E inv \in Invocations : PostStream(inv)
    \/ \E inv \in Invocations : ToolHead(inv)
    \/ \E inv \in Invocations : DispatchRead(inv)
    \/ \E inv \in Invocations : ToolDone(inv)
    \/ \E inv \in Invocations : Finally(inv)

NextLoop ==
    \/ \E inv \in Invocations : ProcessUserMessage(inv)
    \/ LoopProgress
    \/ Abort

SpecLoop == InitLoop /\ [][NextLoop]_vars /\ WF_vars(LoopProgress)

\* Session scenario: two messages, one after the other, whose provider
\* answers with text and a read or fails, while the user starts a new
\* session at any moment
InitSession ==
    /\ InitAgent
    /\ authorizedFolders = <<ObjEntry(FolderA, "strict", 0)>>
    /\ allowedPermissions = <<>>
    /\ files = {}
    /\ cfg = Config(MaxCalls, MaxRequests, 0,
                    {Response(<<"a">>, <<ReadIn>>), Response(<<"b">>, <<>>)},
                    {"other"}, {"returns"}, {FALSE})

NextSession ==
    \/ \E inv \in Invocations : ProcessUserMessage(inv)
    \/ LoopProgress
    \/ clearHistory

SpecSession == InitSession /\ [][NextSession]_vars

\* Command scenario: isSafeCommand applied to every short command line
Words == { <<"l","s">>, <<"g","i","t">>, <<"r","m">>, <<"-","r","f">>,
           <<"p","u","s","h">>, <<"s","t","a","t","u","s">>,
           <<"m","k","f","s">>, <<"/","x">>, <<"m","a","k","e">>,
           <<"-","-","f","o","r","c","e">> }

RECURSIVE CommandsOf(_)
CommandsOf(n) ==
    IF n = 1 THEN Words
    ELSE LET shorter == CommandsOf(n - 1)
         IN  shorter \cup {c \o <<" ">> \o w : c \in shorter, w \in Words}

Commands == CommandsOf(MaxWords)

\* one command is classified in a behaviour
ClassifyCommand(command) ==
    /\ last.op = "none"
    /\ last' = [op |-> "isSafeCommand", arg |-> command, inv |-> 0,
                res |-> IF isSafeCommand(command) THEN "true" ELSE "false"]
    /\ UNCHANGED <<authorizedFolders, allowedPermissions, now, files, cfg>>
    /\ UNCHANGED agentVars

InitCommand ==
    /\ InitAgent
    /\ authorizedFolders = <<>>
    /\ allowedPermissions = <<>>
    /\ files = {}
    /\ cfg = Config(0, 0, 0, {}, {}, {}, {FALSE})

NextCommand == \E command \in Commands : ClassifyCommand(command)

SpecCommand == InitCommand /\ [][NextCommand]_vars

\* Permission scenario: one invocation that writes a new or an existing
\* file in a strict or standard folder, with and without a stored
\* run_command permission, while the
\* user answers confirmations with and without "remember", revokes and
\* clears permissions, and hasPermission is applied to the stored
\* permissions
CheckPermission(tool, path) ==
    /\ runq = <<>>
    /\ last' = [op |-> "hasPermission", arg |-> path, inv |-> 0,
                res |-> IF hasPermission(allowedPermissions, tool, path)
                        THEN "true" ELSE "false",
                tool |-> tool]
    /\ UNCHANGED <<authorizedFolders, allowedPermissions, now, files, cfg>>
    /\ UNCHANGED agentVars

InitPermissions ==
    /\ InitAgent
    /\ authorizedFolders \in {<<ObjEntry(FolderA, t, 0)>> :
                                  t \in {"strict", "standard"}}
    /\ allowedPermissions \in {<<>>, <<Permission("run_command", Star, 0)>>}
    /\ files \in {{}, {FileIn}}
    /\ cfg = Config(1, 1, 0, {Response(<<>>, <<WriteIn, ReadIn>>)}, {},
                    {"returns"}, BOOLEAN)

NextPermissions ==
    \/ AgentStep
    \/ Abort
    \/ \E id \in PendingIds \cup {0}, approved \in BOOLEAN,
         remember \in cfg.remember, tool \in {"", "write_file"},
         path \in {<<>>, FolderA} :
          ConfirmResponse(id, approved, remember, tool, path)
    \/ \E pathPattern \in {<<>>, FolderA} :
          removePermission("write_file", pathPattern)
    \/ clearAllPermissions
    \/ \E tool \in {"write_file", "run_command"},
         path \in {<<>>, FileIn, FileOut} :
          CheckPermission(tool, path)

SpecPermissions == InitPermissions /\ [][NextPermissions]_vars

\* Stream scenario: one invocation and one provider request whose stream
\* is a sequence of text deltas and tool_use blocks.  The JSON text of a
\* block arrives whole, in two halves, cut short or not at all; the blocks
\* with a cut JSON text carry every kind of tool name.  An item records the
\* input its JSON text stands for (value) and whether the text is complete
\* (valid); the stream is built from kind, text, name and json only.
RECURSIVE SequencesOf(_, _)
SequencesOf(items, n) ==
    IF n = 0 THEN {<<>>}
    ELSE LET shorter == SequencesOf(items, n - 1)
         IN  shorter \cup {Append(s, i) : s \in {t \in shorter : Len(t) = n - 1},
                                          i \in items}

InitStream ==
    LET text(t) == [kind |-> "text", text |-> t, name |-> "", json |-> <<>>,
                    valid |-> TRUE, value |-> NoInput]
        tool(name, json, valid, value) ==
            [kind |-> "tool", text |-> "", name |-> name, json |-> json,
             valid |-> valid, value |-> value]
        half       == Fragment("first", PathInput(FileIn))
        readWhole  == tool("read_file",
                           <<Fragment("whole", PathInput(FileIn))>>,
                           TRUE, PathInput(FileIn))
        readHalves == tool("read_file",
                           <<half, Fragment("second", PathInput(FileIn))>>,
                           TRUE, PathInput(FileIn))
        rmWhole    == tool("run_command",
                           <<Fragment("whole", CmdInput(RmRfCmd, <<>>))>>,
                           TRUE, CmdInput(RmRfCmd, <<>>))
        cut(name)  == tool(name, <<half>>, FALSE, NoInput)
        names      == {"read_file", "write_file", "list_dir", "run_command",
                       "skill_pdf", "srv__tool", "mcp_get_all_servers",
                       "unknown_tool"}
        assembly   == SequencesOf({text("a"), text("b"), readWhole,
                                   readHalves, cut("read_file"),
                                   tool("read_file", <<>>, FALSE, NoInput)},
                                  MaxItems)
        batches    == SequencesOf({cut(n) : n \in names}
                                      \cup {readWhole, rmWhole}, 2)
    IN
    /\ InitAgent
    /\ authorizedFolders = <<ObjEntry(FolderA, "trust", 0)>>
    /\ allowedPermissions = <<>>
    /\ files = {}
    /\ cfg \in {Config(1, 1, 0, {[items |-> s]}, {}, {"returns", "throws"},
                        {FALSE}) : s \in (assembly \cup batches) \ {<<>>}}

NextStream ==
    \/ AgentStep
    \/ \E inv \in Invocations : DispatchRunCommand(inv)
    \/ \E inv \in Invocations : DispatchOther(inv)
    \/ UserStep

SpecStream == InitStream /\ [][NextStream]_vars

\* ------------------------------------------------------------------------
\* Properties
\* ------------------------------------------------------------------------
Settled(inv) == proc[inv].pc \in {"idle", "rejected", "done"}
Active(inv)   == ~Settled(inv)

ToolUseIds(msg)    == {msg.blocks[k].id :
                          k \in {j \in 1..Len(msg.blocks) :
                                     msg.blocks[j].type = "tool_use"}}
HasToolUse(msg)    == msg.role = "assistant" /\ ToolUseIds(msg) # {}
ResultCount(msg, id) ==
    Cardinality({k \in 1..Len(msg.blocks) : msg.blocks[k].tool_use_id = id})

\* C1: whenever no processUserMessage invocation is in flight, every
\* assistant message of the history that contains tool_use blocks is
\* immediately followed by a user message that holds exactly one tool_result
\* per tool_use id of that assistant message.
C1_ToolResultsFollow ==
    (\A inv \in Invocations : Settled(inv)) =>
        \A i \in 1..Len(history) :
            HasToolUse(history[i]) =>
                /\ i < Len(history)
                /\ history[i + 1].kind = "results"
                /\ \A id \in ToolUseIds(history[i]) :
                      ResultCount(history[i + 1], id) = 1

\* C2: at no time are two processUserMessage invocations of one AgentRuntime
\* both active (past the guard and not yet through the finally block).
C2_SingleInvocation ==
    Cardinality({inv \in Invocations : Active(inv)}) <= 1

HasText(msg, text) ==
    /\ msg.role = "assistant"
    /\ \E k \in 1..Len(msg.blocks) :
          msg.blocks[k].type = "text" /\ msg.blocks[k].text = text

\* C3: if abort() is called while the stream is consumed and text has been
\* buffered, then when the invocation has finished the history holds an
\* assistant message whose text is the buffered text followed by the
\* interruption marker.
C3_PartialTextKept ==
    \A inv \in Invocations :
        (proc[inv].pc = "done" /\ proc[inv].partial # <<>>) =>
            \E i \in 1..Len(history) :
                HasText(history[i], Append(proc[inv].partial, INTERRUPTED))

LaterIds(p) == {p.toolUses[k].id : k \in (p.abortedAt + 1)..Len(p.toolUses)}

\* C4: if abort() is called while a tool call of a batch is executing or
\* awaiting confirmation, no later tool call of that batch is dispatched:
\* no file, command or tool-server operation is started for it.
C4_AbortSkipsRest ==
    \A inv \in Invocations :
        proc[inv].abortedAt > 0 =>
            \A e \in effects : e.id \notin LaterIds(proc[inv])

\* C5: after abort() was called on a processing agent, the aborted
\* invocation issues no further provider request.
C5_NoRequestAfterAbort ==
    [][\A inv \in aborted :
          proc'[inv].pc = "awaitCreate" => proc[inv].pc = "awaitCreate"]_vars

\* C6: when abort() is called on a processing agent, by the time it returns
\* every pending confirmation has been resolved with false, the map of
\* pending confirmations is empty, isProcessing is false and one
\* agent:aborted notification has been broadcast; the provider calls in
\* flight are not waited for (they are still in flight).
C6_AbortSynchronous ==
    [][(isProcessing /\ aborted' # aborted) =>
          /\ pendingConfirmations' = <<>>
          /\ ~isProcessing'
          /\ abortController' = 0
          /\ sent'["agent:aborted"] = sent["agent:aborted"] + 1
          /\ \A k \in 1..Len(pendingConfirmations) :
                /\ proc'[pendingConfirmations[k].inv].pc = "confirmed"
                /\ ~proc'[pendingConfirmations[k].inv].approved
          /\ \A inv \in Invocations :
                proc[inv].pc \in {"awaitCreate", "streaming"} =>
                    proc'[inv].pc = proc[inv].pc]_vars

\* a state right after abort() resolved a pending confirmation as denied
C6_Witness ==
    /\ sent["agent:aborted"] >= 1
    /\ pendingConfirmations = <<>>
    /\ ~isProcessing
    /\ \E inv \in Invocations :
          /\ inv \in aborted
          /\ proc[inv].pc = "confirmed"
          /\ ~proc[inv].approved
          /\ proc[inv].abortedAt > 0

IsDangerousDispatch(inv) ==
    /\ proc[inv].pc = "dispatch"
    /\ CurrentTool(inv).name = "run_command"
    /\ CurrentTool(inv).input.kind = "args"
    /\ isDangerousCommand(CurrentTool(inv).input.command)

\* C7: when a run_command call matches a dangerous pattern, a confirmation
\* request is always sent to the user, for every trust tier and whether or
\* not a standing run_command permission exists, and the command runs only
\* once the user has answered.
C7_DangerousAlwaysConfirmed ==
    [][\A inv \in Invocations :
          (IsDangerousDispatch(inv) /\ proc'[inv].pc # "dispatch") =>
              /\ proc'[inv].pc = "awaitConfirm"
              /\ sent'["agent:confirm-request"] =
                     sent["agent:confirm-request"] + 1
              /\ effects' = effects]_vars

\* normalized path p is folder f or lies below it by whole segments
IsWithin(p, f) ==
    \/ p = f
    \/ f = <<"/">>
    \/ StartsWith(p, f \o <<"/">>)

\* C8: isPathAuthorized(P) is true iff the normalized P equals an authorized
\* folder or is a descendant of one by whole path segments.
C8_SegmentPrefix ==
    last.op = "isPathAuthorized" =>
        (last.res = "true" <=>
            \E i \in 1..Len(authorizedFolders) :
                IsWithin(resolve(last.arg),
                         getAuthorizedFolders(authorizedFolders)[i]))

IsUnauthorizedDispatch(inv) ==
    /\ proc[inv].pc = "dispatch"
    /\ CurrentTool(inv).name \in {"read_file", "write_file", "list_dir"}
    /\ CurrentTool(inv).input.kind = "args"
    /\ ~getAuthorizedFoldersThrows(authorizedFolders)
    /\ ~isPathAuthorized(CurrentTool(inv).input.path, authorizedFolders)

\* C9: for read_file, write_file and list_dir, if isPathAuthorized(path) is
\* false then the dispatch performs no file-system operation and requests no
\* confirmation, throws nothing (the loop goes on to its next tool call), and
\* the tool_result for the tool_use id is the 'not authorized' error text.
C9_UnauthorizedIsResult ==
    [][\A inv \in Invocations :
          (IsUnauthorizedDispatch(inv) /\ proc'[inv] # proc[inv]) =>
              /\ effects' = effects
              /\ files' = files
              /\ artifacts' = artifacts
              /\ pendingConfirmations' = pendingConfirmations
              /\ sent' = sent
              /\ runq' = runq
              /\ proc'[inv].pc = "toolHead"
              /\ proc'[inv].idx = proc[inv].idx + 1
              /\ proc'[inv].toolResults =
                     Append(proc[inv].toolResults,
                            ToolResultBlock(CurrentTool(inv).id,
                                            "NotAuthorized"))]_vars

\* a results message in the history carries the error of an unauthorized
\* list_dir and of an unauthorized write_file
C9_Witness ==
    \E i \in 1..Len(history) :
        /\ history[i].kind = "results"
        /\ Len(history[i].blocks) = 2
        /\ history[i].blocks[1].content = "NotAuthorized"
        /\ history[i].blocks[2].content = "NotAuthorized"

\* C10: after any sequence of folder-authorizing operations the authorized
\* folders contain no filesystem root.
C10_NoRootAuthorized ==
    \A i \in 1..Len(authorizedFolders) :
        /\ resolve(authorizedFolders[i].path) # <<"/">>
        /\ ~IsDriveRoot(authorizedFolders[i].path)

\* C12: isSafeCommand(command) is false for every command that matches a
\* dangerous pattern, also when its first token is on the safe allow-list.
C12_DangerousNeverSafe ==
    (last.op = "isSafeCommand" /\ isDangerousCommand(last.arg)) =>
        last.res = "false"

\* the step of invocation inv asks the user for a confirmation
Requested(inv) ==
    /\ proc'[inv].pc = "awaitConfirm"
    /\ sent'["agent:confirm-request"] = sent["agent:confirm-request"] + 1
    /\ Len(pendingConfirmations') = Len(pendingConfirmations) + 1

\* the step of invocation inv approves by itself, asking nobody
AutoApproved(inv) ==
    /\ proc'[inv].pc = "confirmed"
    /\ proc'[inv].approved
    /\ sent' = sent
    /\ pendingConfirmations' = pendingConfirmations

\* the step is the user's answer to the confirmation invocation inv awaits
Answered(inv) ==
    /\ proc[inv].pc = "awaitConfirm"
    /\ last' # last
    /\ last'.op = "agent:confirm-response"
    /\ \E k \in 1..Len(pendingConfirmations) :
          /\ pendingConfirmations[k].inv = inv
          /\ pendingConfirmations[k].id = last'.inv

\* the user's answer is what the invocation goes on with
AnswerTaken(inv) ==
    /\ proc'[inv].pc = "confirmed"
    /\ proc'[inv].approved = (last'.res = "true")

\* the step of inv after the approval is known starts the operation op iff
\* approved, and records the denial otherwise
RunsIffApproved(inv, op) ==
    IF proc[inv].approved
    THEN /\ proc'[inv].pc = "awaitTool"
         /\ \E e \in effects' \ effects :
               /\ e.id = CurrentTool(inv).id
               /\ e.op = op
               /\ effects' = effects \cup {e}
    ELSE /\ effects' = effects
         /\ proc'[inv].pc # "awaitTool"

IsAuthorizedWrite(inv) ==
    /\ CurrentTool(inv).name = "write_file"
    /\ CurrentTool(inv).input.kind = "args"
    /\ ~getAuthorizedFoldersThrows(authorizedFolders)
    /\ isPathAuthorized(CurrentTool(inv).input.path, authorizedFolders)
    /\ ~hasPermission(allowedPermissions, "write_file",
                      CurrentTool(inv).input.path)

\* C11: for write_file on an authorized path with no standing write_file
\* permission, the strict tier requests a confirmation whether or not the
\* target exists, the standard tier requests one iff the target exists, the
\* trust tier requests none; and the write is performed iff it was
\* auto-approved or the user approved it.
C11_WriteTiers ==
    [][\A inv \in Invocations :
          LET path  == CurrentTool(inv).input.path
              tier  == getFileTrustLevel(authorizedFolders, path)
          IN
          /\ (proc[inv].pc = "dispatch" /\ IsAuthorizedWrite(inv)
                /\ proc'[inv] # proc[inv]) =>
                 /\ tier = "strict" => Requested(inv)
                 /\ tier = "standard" =>
                        IF path \in files THEN Requested(inv)
                                          ELSE AutoApproved(inv)
                 /\ tier = "trust" => AutoApproved(inv)
          /\ (Answered(inv) /\ IsAuthorizedWrite(inv)) => AnswerTaken(inv)
          /\ (proc[inv].pc = "confirmed" /\ IsAuthorizedWrite(inv)
                /\ proc'[inv] # proc[inv]) =>
                 RunsIffApproved(inv, "writeFile")]_vars

\* under the standard tier the overwrite of an existing file was confirmed by
\* the user and is being performed
C11_Witness ==
    /\ authorizedFolders[1].trustLevel = "standard"
    /\ FileIn \in files
    /\ last.op = "agent:confirm-response" /\ last.res = "true"
    /\ \E inv \in Invocations :
          /\ proc[inv].pc = "awaitTool"
          /\ CurrentTool(inv).name = "write_file"
          /\ \E e \in effects : e.op = "writeFile" /\ e.id = CurrentTool(inv).id

IsRunCommand(inv) ==
    /\ CurrentTool(inv).name = "run_command"
    /\ CurrentTool(inv).input.kind = "args"

\* the trust tier the run_command branch works with: that of args.cwd, or
\* of the first authorized folder (process.cwd() when there is none)
CommandTier(inv) ==
    LET args       == CurrentTool(inv).input
        folders    == proc[inv].folders
        defaultCwd == IF folders # <<>> THEN folders[1] ELSE Cwd
    IN  getFileTrustLevel(authorizedFolders,
                          IF args.cwd # <<>> THEN args.cwd ELSE defaultCwd)

StandingCommandPermission(inv) ==
    hasPermission(allowedPermissions, "run_command",
                  CurrentTool(inv).input.cwd)

\* a git command that is none of the read-only queries
IsGitChange(command) ==
    /\ LowerString(FirstToken(trim(command))) = <<"g","i","t">>
    /\ ~MatchFrom(trim(command), 1, GitReadOnly, 1)

\* C13: a git command that is not one of the read-only queries, such as
\* 'git push --force', is not classified safe, and under the strict and the
\* standard tier, with no standing permission, it is executed only after a
\* confirmation request was approved.
C13_GitChangeConfirmed ==
    [][\A inv \in Invocations :
          (proc[inv].pc = "dispatch" /\ IsRunCommand(inv)
             /\ IsGitChange(CurrentTool(inv).input.command)
             /\ CommandTier(inv) \in {"strict", "standard"}
             /\ ~StandingCommandPermission(inv)
             /\ proc'[inv] # proc[inv]) =>
              /\ ~isSafeCommand(CurrentTool(inv).input.command)
              /\ Requested(inv)]_vars

IsPlainCommand(inv) ==
    /\ IsRunCommand(inv)
    /\ ~isDangerousCommand(CurrentTool(inv).input.command)
    /\ ~StandingCommandPermission(inv)

\* C14: for run_command with no dangerous pattern and no standing
\* permission, the standard tier runs the command without confirmation iff
\* isSafeCommand is true and otherwise only after an approved confirmation;
\* the strict tier runs it only after an approved confirmation, also when
\* isSafeCommand is true.
C14_CommandTiers ==
    [][\A inv \in Invocations :
          /\ (proc[inv].pc = "dispatch" /\ IsPlainCommand(inv)
                /\ proc'[inv] # proc[inv]) =>
                 /\ CommandTier(inv) = "standard" =>
                        IF isSafeCommand(CurrentTool(inv).input.command)
                        THEN AutoApproved(inv) ELSE Requested(inv)
                 /\ CommandTier(inv) = "strict" => Requested(inv)
          /\ (Answered(inv) /\ IsPlainCommand(inv)) => AnswerTaken(inv)
          /\ (proc[inv].pc = "confirmed" /\ IsPlainCommand(inv)
                /\ CommandTier(inv) \in {"strict", "standard"}
                /\ proc'[inv] # proc[inv]) =>
                 RunsIffApproved(inv, "runCommand")]_vars

\* under the strict tier the safe command ls runs after the user approved it
C14_Witness ==
    /\ authorizedFolders[1].trustLevel = "strict"
    /\ allowedPermissions = <<>>
    /\ last.op = "agent:confirm-response" /\ last.res = "true"
    /\ \E inv \in Invocations :
          /\ proc[inv].pc = "awaitTool"
          /\ CurrentTool(inv).name = Ls.name
          /\ CurrentTool(inv).input = Ls.input
          /\ \E e \in effects : e.op = "runCommand" /\ e.id = CurrentTool(inv).id

\* C15: a standing run_command permission lets a command skip the
\* confirmation only when it is classified safe; a command that is not
\* classified safe, or is dangerous, still produces a confirmation request
\* when a matching standing permission exists.
C15_PermissionOnlyForSafe ==
    [][\A inv \in Invocations :
          (proc[inv].pc = "dispatch" /\ IsRunCommand(inv)
             /\ StandingCommandPermission(inv)
             /\ \/ isDangerousCommand(CurrentTool(inv).input.command)
                \/ /\ ~isSafeCommand(CurrentTool(inv).input.command)
                   /\ CommandTier(inv) \in {"strict", "standard"}
             /\ proc'[inv] # proc[inv]) =>
              Requested(inv)]_vars

\* C16: an accepted processUserMessage invocation issues at most 30 provider
\* requests and then returns, also when every provider response consists of
\* tool calls only or every request fails with the recoverable
\* content-safety error.
C16_BoundedLoop ==
    /\ [](nReq <= MAX_ITERATIONS)
    /\ \A inv \in Invocations :
          [](Active(inv) => <>(proc[inv].pc = "done"))

\* the invocation returned after its thirtieth request
C16_Witness ==
    /\ nReq = MAX_ITERATIONS
    /\ \E inv \in Invocations : proc[inv].pc = "done"

IsCall(inv) == proc[inv].pc = "idle" /\ proc'[inv].pc # "idle"

\* C18: a processUserMessage call made while isProcessing is true and at most
\* 60 seconds after the invocation in flight was accepted fails ('already
\* processing') and leaves history, isProcessing, the cancellation controller
\* and pendingConfirmations unchanged, with no agent:done or agent:error
\* broadcast; after more than 60 seconds the call is accepted.
C18_GuardAndWatchdog ==
    [][\A inv \in Invocations :
          (IsCall(inv) /\ isProcessing) =>
              IF now - lastProcessTime <= 60000
              THEN /\ proc'[inv].pc = "rejected"
                   /\ UNCHANGED <<history, isProcessing, abortController,
                                  pendingConfirmations, sent>>
              ELSE /\ proc'[inv].pc = "loadSkills"
                   /\ isProcessing'
                   /\ abortController' = inv]_vars

\* a call was rejected exactly 60 seconds after the invocation in flight was
\* accepted
C18_Witness ==
    /\ isProcessing
    /\ now - lastProcessTime = 60000
    /\ \E inv \in Invocations : proc[inv].pc = "rejected"

\* the step is handleConfirmResponse(last'.inv, last'.res)
IsResponse ==
    /\ last'.op = "agent:confirm-response"
    /\ last' # last

EntriesWith(id) ==
    {k \in 1..Len(pendingConfirmations) : pendingConfirmations[k].id = id}

\* C19: each confirmation id is consumed at most once: the first
\* handleConfirmResponse for a pending id resolves its promise with the
\* answer and removes the entry, ids are never issued twice, and a
\* handleConfirmResponse for an id that is not pending changes no state and
\* resolves nothing.
C19_SingleUseIds ==
    /\ [][IsResponse =>
            IF last'.inv \in PendingIds
            THEN /\ last'.inv \notin PendingIds'
                 /\ Len(pendingConfirmations') = Len(pendingConfirmations) - 1
                 /\ \A k \in EntriesWith(last'.inv) :
                       LET owner == pendingConfirmations[k].inv IN
                       /\ proc[owner].pc = "awaitConfirm"
                       /\ proc'[owner].pc = "confirmed"
                       /\ proc'[owner].approved = (last'.res = "true")
            ELSE UNCHANGED <<proc, pendingConfirmations, runq, history,
                             isProcessing, abortController, sent, effects>>]_vars
    /\ [][\A id \in PendingIds' \ PendingIds : id > nextConfirm]_vars
    /\ [](\A id \in PendingIds :
              id <= nextConfirm /\ Cardinality(EntriesWith(id)) = 1)

\* an answer has just consumed a pending id, and a second confirmation was
\* requested after it
C19_Witness ==
    /\ last.op = "agent:confirm-response"
    /\ last.inv # 0
    /\ last.inv \notin PendingIds
    /\ nextConfirm >= 2
    /\ \E inv \in Invocations : proc[inv].pc = "confirmed"

\* C20: when several confirmations are outstanding, handleConfirmResponse(id,
\* approved) resolves only the entry with that id, with the given answer, and
\* leaves every other pending entry pending and unchanged.
C20_OtherEntriesKept ==
    [][(IsResponse /\ last'.inv \in PendingIds) =>
          LET notId(e) == e.id # last'.inv IN
          /\ pendingConfirmations' = SelectSeq(pendingConfirmations, notId)
          /\ \A k \in 1..Len(pendingConfirmations) :
                LET e == pendingConfirmations[k] IN
                IF e.id = last'.inv
                THEN /\ proc'[e.inv].pc = "confirmed"
                     /\ proc'[e.inv].approved = (last'.res = "true")
                ELSE proc'[e.inv] = proc[e.inv]]_vars

\* one of two outstanding confirmations has just been answered, the other is
\* still pending
C20_Witness ==
    /\ last.op = "agent:confirm-response"
    /\ Len(pendingConfirmations) = 1
    /\ last.inv # pendingConfirmations[1].id
    /\ proc[pendingConfirmations[1].inv].pc = "awaitConfirm"
    /\ \E inv \in Invocations :
          /\ inv # pendingConfirmations[1].inv
          /\ proc[inv].pc = "confirmed"
          /\ proc[inv].approved = (last.res = "true")

\* the path patterns of the stored permissions of a tool
PatternsOf(tool) ==
    {allowedPermissions[i].pathPattern :
        i \in {j \in 1..Len(allowedPermissions) :
                  allowedPermissions[j].tool = tool}}

\* C21: hasPermission(tool, path) is true for every path, and for no path,
\* when a stored permission of the tool has the pattern '*'; when the stored
\* permissions of the tool have specific patterns only, it is true only for
\* a path that starts with one of them; it is false when no stored
\* permission has the tool name.
C21_StandingPermission ==
    last.op = "hasPermission" =>
        LET patterns == PatternsOf(last.tool) IN
        /\ Star \in patterns => last.res = "true"
        /\ (Star \notin patterns /\ last.res = "true") =>
               /\ last.arg # <<>>
               /\ \E q \in patterns : StartsWith(last.arg, q)
        /\ patterns = {} => last.res = "false"

\* hasPermission answered true for a path under a specific pattern while
\* the tool has no '*' permission and another tool has one
C21_Witness ==
    /\ last.op = "hasPermission"
    /\ last.res = "true"
    /\ Star \notin PatternsOf(last.tool)
    /\ \E i \in 1..Len(allowedPermissions) :
          /\ allowedPermissions[i].tool # last.tool
          /\ allowedPermissions[i].pathPattern = Star

Entries(permissions) == {permissions[i] : i \in 1..Len(permissions)}

\* C22: a permission enters the store only in a confirmation response with
\* approved = true and remember = true (never in a denied response or in an
\* approved one without remember), and a permission leaves the store only
\* in removePermission or clearAllPermissions.
C22_OnlyRememberedApprovals ==
    [][/\ Entries(allowedPermissions') \ Entries(allowedPermissions) # {} =>
              /\ last'.op = "agent:confirm-response"
              /\ last'.res = "true"
              /\ last'.remember
       /\ Entries(allowedPermissions) \ Entries(allowedPermissions') # {} =>
              last'.op \in {"permissions:revoke", "permissions:clear"}]_vars

\* the user approved the pending write confirmation with "remember": the
\* write goes on and the permission for write_file is stored
C22_Witness ==
    /\ last.op = "agent:confirm-response"
    /\ last.inv # 0
    /\ last.remember
    /\ \E inv \in Invocations :
          /\ proc[inv].pc = "confirmed"
          /\ proc[inv].approved
    /\ \E i \in 1..Len(allowedPermissions) :
          allowedPermissions[i] = Permission("write_file", FolderA, 0)

\* C23: after any sequence of folder additions (authorizeFolder with
\* addAuthorizedFolder, agent:authorize-folder, agent:set-working-dir) the
\* list of authorized folders holds at most one entry per path.
C23_OneEntryPerPath ==
    \A i, j \in 1..Len(authorizedFolders) :
        i # j => authorizedFolders[i].path # authorizedFolders[j].path

\* the items of the stream of the stream scenario
StreamItems == (CHOOSE r \in cfg.menu : TRUE).items

\* the stream of the only request has been consumed to its end
Assembled ==
    /\ nReq = 1
    /\ aborted = {}
    /\ proc[1].pc \notin {"awaitCreate", "streaming", "postStream"}

\* the maximal text runs and the tool calls of a list of items, in order
RECURSIVE ExpectedBlocks(_, _, _)
ExpectedBlocks(items, k, run) ==
    LET flush == IF run # <<>> THEN <<TextBlock(run)>> ELSE <<>> IN
    IF k > Len(items) THEN flush
    ELSE IF items[k].kind = "text"
    THEN ExpectedBlocks(items, k + 1, Append(run, items[k].text))
    ELSE flush \o <<ToolUseBlock(ToolId(1, k), items[k].name,
                                 items[k].value)>>
               \o ExpectedBlocks(items, k + 1, <<>>)

\* C24: for a stream of text deltas and complete tool_use blocks that ends
\* with message_stop, the finalized content is the list of the maximal text
\* runs and of the tool calls in the order received: every text delta once,
\* the text before a tool_use start in a block of its own, every tool call
\* with its parsed arguments.
C24_BlocksInOrder ==
    (Assembled /\ \A k \in 1..Len(StreamItems) : StreamItems[k].valid) =>
        /\ Len(history) >= 2
        /\ history[2] = AssistantMsg(ExpectedBlocks(StreamItems, 1, <<>>))

\* text, a tool call whose JSON text came in two halves, text: three blocks
C24_Witness ==
    /\ Assembled
    /\ Len(StreamItems) = 3
    /\ StreamItems[1].kind = "text"
    /\ StreamItems[2].kind = "tool" /\ Len(StreamItems[2].json) = 2
    /\ StreamItems[3].kind = "text"
    /\ Len(history) >= 2
    /\ Len(history[2].blocks) = 3
    /\ history[2].blocks[2].input = PathInput(FileIn)

ToolItems == {k \in 1..Len(StreamItems) : StreamItems[k].kind = "tool"}

\* C25: a tool_use block whose accumulated JSON text is not valid JSON at
\* block stop is finalized as a tool_use block with its id and name and the
\* parse-error sentinel as input; no block is dropped and no error leaves
\* the assembly of the stream.
C25_InvalidJsonKept ==
    Assembled =>
        /\ Len(history) >= 2
        /\ history[2].role = "assistant"
        /\ Len(SelectSeq(history[2].blocks, IsToolUse)) =
               Cardinality(ToolItems)
        /\ \A k \in ToolItems :
              ~StreamItems[k].valid =>
                  \E j \in 1..Len(history[2].blocks) :
                      /\ history[2].blocks[j].type = "tool_use"
                      /\ history[2].blocks[j].id = ToolId(1, k)
                      /\ history[2].blocks[j].name = StreamItems[k].name
                      /\ history[2].blocks[j].input = Sentinel
        /\ sent["agent:error"] = 0

\* a block with a cut JSON text and a block with no JSON text at all were
\* both finalized with the sentinel
C25_Witness ==
    /\ Assembled
    /\ \E k \in ToolItems : StreamItems[k].json = <<>>
    /\ \E k \in ToolItems : Len(StreamItems[k].json) = 1 /\ ~StreamItems[k].valid
    /\ Len(history) >= 2
    /\ \E j \in 1..Len(history[2].blocks) :
          history[2].blocks[j].input = Sentinel

SentinelIds == {ToolId(1, k) : k \in {j \in ToolItems : ~StreamItems[j].valid}}

\* C26: a tool_use block that carries the parse-error sentinel gets exactly
\* one tool_result with its id and an error text, whatever the tool name,
\* and the turn goes on: unless the user aborts, the invocation does not end
\* before the results are appended to the history.
C26_SentinelGetsResult ==
    (nReq = 1 /\ aborted = {} /\ SentinelIds # {}) =>
        /\ \A i \in 1..Len(history) :
              history[i].kind = "results" =>
                  \A id \in SentinelIds :
                      /\ ResultCount(history[i], id) = 1
                      /\ \A j \in 1..Len(history[i].blocks) :
                            history[i].blocks[j].tool_use_id = id =>
                                history[i].blocks[j].content \in
                                    {"InvalidJSON", "ErrorExecuting"}
        /\ proc[1].pc \in {"finally", "done"} =>
              \E i \in 1..Len(history) : history[i].kind = "results"

\* a file, command or tool-server operation that starts in this step is
\* the one of the current tool call of its invocation, and every earlier
\* tool call of the batch has produced its result
StartsInOrder ==
    \A e \in effects' \ effects :
        LET p == proc[e.inv] IN
        /\ p.idx \in 1..Len(p.toolUses)
        /\ e.id = p.toolUses[p.idx].id
        /\ Len(p.toolResults) = p.idx - 1
        /\ \A k \in 1..(p.idx - 1) :
              p.toolResults[k].tool_use_id = p.toolUses[k].id

\* a results message lists the results in the order of the tool_use blocks
\* of the assistant message before it, with their ids
ResultsInOrder ==
    \A i \in 1..Len(history) :
        history[i].kind = "results" =>
            /\ i > 1
            /\ history[i - 1].role = "assistant"
            /\ LET uses == SelectSeq(history[i - 1].blocks, IsToolUse) IN
               /\ Len(history[i].blocks) = Len(uses)
               /\ \A k \in 1..Len(uses) :
                     history[i].blocks[k].tool_use_id = uses[k].id

\* C27: within one assistant turn the tool calls are executed one at a time
\* in the order of the tool_use blocks (a call starts only after the
\* previous one has produced its result), and the appended tool-result
\* message lists the results in that order with the matching ids.
C27_ToolsInOrder ==
    /\ []ResultsInOrder
    /\ [][StartsInOrder]_vars

\* both tool calls of a batch were executed and their results appended
C27_Witness ==
    \E i \in 1..Len(history) :
        /\ history[i].kind = "results"
        /\ Len(history[i].blocks) = 2
        /\ history[i].blocks[1].content = "Output"
        /\ history[i].blocks[2].content = "Output"
        /\ Cardinality({e \in effects :
                           e.id \in {history[i].blocks[1].tool_use_id,
                                     history[i].blocks[2].tool_use_id}}) = 2

\* the current tool call of invocation inv is a run_command that matches a
\* dangerous pattern, and it has been answered or is executing
IsDangerousCurrent(inv) ==
    /\ proc[inv].pc \in {"confirmed", "awaitTool"}
    /\ CurrentTool(inv).name = "run_command"
    /\ CurrentTool(inv).input.kind = "args"
    /\ isDangerousCommand(CurrentTool(inv).input.command)

\* C28: a tool call of a batch is processed independently of the risk
\* classification of the others: once a run_command that matches a
\* dangerous pattern has been denied or has run, its result joins the
\* results of the batch and the loop goes on to the next tool call.
C28_DangerousKeepsBatch ==
    [][\A inv \in Invocations :
          (IsDangerousCurrent(inv)
             /\ proc'[inv].pc \notin {"confirmed", "awaitTool"}) =>
              /\ proc'[inv].pc = "toolHead"
              /\ proc'[inv].idx = proc[inv].idx + 1
              /\ Len(proc'[inv].toolResults) =
                     Len(proc[inv].toolResults) + 1]_vars

\* C29: when the confirmation of a write_file or run_command call resolves
\* as denied, by the user or by abort, the write or command is not
\* executed, nothing is thrown, and the tool_result of the tool_use id is
\* the 'user denied' text, kept for the results message of the batch.
C29_DenialIsResult ==
    [][\A inv \in Invocations :
          (proc[inv].pc = "confirmed" /\ ~proc[inv].approved
             /\ proc'[inv].pc # "confirmed") =>
              /\ effects' = effects
              /\ files' = files
              /\ sent'["agent:error"] = sent["agent:error"]
              /\ proc'[inv].pc = "toolHead"
              /\ proc'[inv].toolResults =
                     Append(proc[inv].toolResults,
                            ToolResultBlock(CurrentTool(inv).id,
                                IF CurrentTool(inv).name = "write_file"
                                THEN "DeniedWrite" ELSE "DeniedCommand"))]_vars

\* the provider call of invocation inv fails in this step with the
\* content-safety rejection (the only error of the scenario), its signal
\* not being aborted
IsSensitiveFailure(inv) ==
    /\ cfg.errors = {"sensitive"}
    /\ proc[inv].pc \in {"awaitCreate", "streaming"}
    /\ proc[inv].signal \notin aborted
    /\ proc'[inv].pc \notin {"awaitCreate", "streaming", "postStream"}

\* invocation inv is back at the head of the loop after the corrective
\* message, below the iteration bound
Retrying(inv) ==
    /\ proc[inv].pc = "loopHead"
    /\ proc[inv].iterationCount < MAX_ITERATIONS
    /\ history # <<>>
    /\ history[Len(history)].kind = "corrective"

\* C30: when a provider call fails with the content-safety rejection, a
\* corrective user message is appended to the history, no agent:error is
\* broadcast for it, and the loop continues with another provider call as
\* long as the iteration bound is not reached.
C30_SensitiveRetried ==
    /\ [][\A inv \in Invocations :
             IsSensitiveFailure(inv) =>
                 /\ history' = Append(history, UserMsg("corrective"))
                 /\ sent' = sent
                 /\ proc'[inv].pc = "loopHead"
                 /\ proc'[inv].keepGoing]_vars
    /\ \A inv \in Invocations :
          [](Retrying(inv) => <>(proc[inv].pc = "awaitCreate"))

\* three provider calls were rejected and retried, with no agent:error
C30_Witness ==
    /\ nReq >= 3
    /\ sent["agent:error"] = 0
    /\ Cardinality({i \in 1..Len(history) :
                        history[i].kind = "corrective"}) >= 3
    /\ \E inv \in Invocations : proc[inv].pc = "awaitCreate"

\* the provider call of invocation inv fails in this step with an error
\* that is neither the abort of its signal nor the content-safety
\* rejection
IsOtherFailure(inv) ==
    /\ cfg.errors = {"other"}
    /\ proc[inv].pc \in {"awaitCreate", "streaming"}
    /\ proc[inv].signal \notin aborted
    /\ proc'[inv].pc \notin {"awaitCreate", "streaming", "postStream"}

\* C31: when a provider call fails with an error that is neither an abort
\* nor the content-safety rejection, exactly one agent:error is broadcast,
\* the invocation goes to the cleanup step, and from there on it issues no
\* provider request, runs no tool and broadcasts no further agent:error.
C31_ErrorEndsInvocation ==
    [][\A inv \in Invocations :
          /\ IsOtherFailure(inv) =>
                 /\ sent' = broadcast(sent, "agent:error")
                 /\ proc'[inv].pc = "finally"
                 /\ nReq' = nReq
                 /\ effects' = effects
          /\ proc[inv].pc \in {"finally", "done"} =>
                 /\ proc'[inv].pc \in {"finally", "done"}
                 /\ nReq' = nReq
                 /\ effects' = effects
                 /\ sent'["agent:error"] = sent["agent:error"]]_vars

\* the second provider call of an invocation failed after a tool had run:
\* one agent:error was broadcast and the invocation is over
C31_Witness ==
    /\ cfg.errors = {"other"}
    /\ nReq = 2
    /\ effects # {}
    /\ sent["agent:error"] = 1
    /\ sent["agent:done"] = 1
    /\ \E inv \in Invocations : proc[inv].pc = "done"

\* C32: an abort is never reported as an error: whatever the point at which
\* abort() arrives (provider call, stream, confirmation, tool execution),
\* an agent:error is broadcast only by a step in which a provider call
\* whose signal was not aborted fails by itself.
C32_AbortIsNoError ==
    [][sent'["agent:error"] # sent["agent:error"] =>
          \E inv \in Invocations : IsOtherFailure(inv)]_vars

\* abort() arrived during the first provider call, whose rejection took
\* the invocation to its finally block with no agent:error
C32_Witness ==
    /\ sent["agent:aborted"] = 1
    /\ sent["agent:error"] = 0
    /\ Len(history) = 1
    /\ \E inv \in Invocations :
          /\ proc[inv].pc = "finally"
          /\ proc[inv].signal \in aborted

\* fsTools.writeFile of the write_file call of invocation inv returns in
\* this step: its output becomes the tool result
WriteReturned(inv) ==
    /\ proc[inv].pc = "awaitTool"
    /\ CurrentTool(inv).name = "write_file"
    /\ proc'[inv].pc = "toolHead"
    /\ proc'[inv].toolResults =
           Append(proc[inv].toolResults,
                  ToolResultBlock(CurrentTool(inv).id, "Output"))

\* C33: an artifact is recorded and agent:artifact-created is broadcast
\* exactly in the step in which the write of an approved write_file call on
\* an authorized path has been performed; no other step, in particular no
\* denied write, no failed write and no write to an unauthorized path,
\* records an artifact or broadcasts the notification.
C33_ArtifactAfterWrite ==
    [][IF \E inv \in Invocations : WriteReturned(inv)
       THEN \E inv \in Invocations :
               /\ WriteReturned(inv)
               /\ proc[inv].approved
               /\ isPathAuthorized(CurrentTool(inv).input.path,
                                   authorizedFolders)
               /\ \E e \in effects : /\ e.id = CurrentTool(inv).id
                                      /\ e.op = "writeFile"
               /\ CurrentTool(inv).input.path \in files'
               /\ artifacts' = Append(artifacts,
                                      CurrentTool(inv).input.path)
               /\ sent' = broadcast(sent, "agent:artifact-created")
       ELSE /\ artifacts' = artifacts
            /\ sent'["agent:artifact-created"] =
                   sent["agent:artifact-created"]]_vars

\* the write to /a/f was performed and recorded once, and a write to /x was
\* answered with the 'not authorized' result
C33_Witness ==
    /\ artifacts = <<FileIn>>
    /\ FileIn \in files
    /\ sent["agent:artifact-created"] = 1
    /\ \E inv \in Invocations :
          /\ proc[inv].pc = "toolHead"
          /\ \E k \in 1..Len(proc[inv].toolResults) :
                proc[inv].toolResults[k].content = "NotAuthorized"
          /\ \E k \in 1..Len(proc[inv].toolUses) :
                /\ proc[inv].toolUses[k].name = "write_file"
                /\ proc[inv].toolUses[k].input.path = FileOut

\* the tier policy sends the write_file call that invocation inv is about
\* to dispatch to requestConfirmation: strict tier, or standard tier with
\* an existing target
IsConfirmedWrite(inv) ==
    /\ proc[inv].pc = "dispatch"
    /\ CurrentTool(inv).name = "write_file"
    /\ CurrentTool(inv).input.kind = "args"
    /\ isPathAuthorized(CurrentTool(inv).input.path, authorizedFolders)
    /\ LET tier == getFileTrustLevel(authorizedFolders,
                                     CurrentTool(inv).input.path)
       IN  \/ tier = "strict"
           \/ tier = "standard" /\ CurrentTool(inv).input.path \in files

\* C34: when a standing write_file permission matches the target path, a
\* write that the tier sends for confirmation (strict, or standard with an
\* existing target) is approved without a pending confirmation being
\* registered and without agent:confirm-request being broadcast.
C34_StandingWriteSkipsConfirmation ==
    [][\A inv \in Invocations :
          (/\ IsConfirmedWrite(inv)
           /\ hasPermission(allowedPermissions, "write_file",
                            CurrentTool(inv).input.path)
           /\ proc'[inv].pc # "dispatch") => AutoApproved(inv)]_vars

\* under the standard tier the overwrite of the existing /a/f is being
\* performed on a standing permission, and no confirmation was requested
C34_Witness ==
    /\ FileIn \in files
    /\ artifacts = <<>>
    /\ sent["agent:confirm-request"] = 0
    /\ pendingConfirmations = <<>>
    /\ hasPermission(allowedPermissions, "write_file", FileIn)
    /\ getFileTrustLevel(authorizedFolders, FileIn) = "standard"
    /\ \E inv \in Invocations :
          /\ proc[inv].pc = "awaitTool"
          /\ CurrentTool(inv).name = "write_file"

\* C35: from its acceptance until its own finally block runs or abort() is
\* called on it, an invocation keeps isProcessing true and its controller
\* set: the finally block of an earlier invocation (aborted, or superseded
\* by the watchdog), running while the controller of a newer invocation is
\* the current one, clears neither the flag nor that controller.
C35_NewerInvocationKeepsFlag ==
    [][\A inv \in Invocations, newer \in Invocations :
          (/\ inv # newer
           /\ proc[inv].pc = "finally"
           /\ proc'[inv].pc = "done"
           /\ isProcessing
           /\ abortController = newer) =>
              /\ isProcessing'
              /\ abortController' = newer]_vars

\* C36: a tool_use block whose input is the parse-error sentinel never
\* causes an execution: no file operation, command, external tool call
\* (callTool) or server-management operation is started for it.
C36_SentinelNeverExecutes ==
    \A e \in effects : e.input.kind # "sentinel"

\* C37: a run_command call is handed to the executor only when its working
\* directory (args.cwd, or the primary authorized folder when there is
\* none) lies under an authorized folder.
C37_CommandCwdAuthorized ==
    \A e \in effects :
        e.op = "runCommand" => isPathAuthorized(e.target, authorizedFolders)

\* the run_command call invocation inv is at matches no dangerous pattern
\* and its working directory is in a folder of the trust tier
IsTrustedCommand(inv) ==
    /\ IsRunCommand(inv)
    /\ ~isDangerousCommand(CurrentTool(inv).input.command)
    /\ CommandTier(inv) = "trust"

C39_ClearedHistoryStaysEmpty ==
    last.op = "agent:new-session" =>
        \/ history = <<>>
        \/ history[1] = UserMsg("text")

\* the entries of folders other than the entry of the folder p
OtherEntries(folders, p) ==
    LET isOther(f) == ~(f.kind = "obj" /\ f.path = p)
    IN  SelectSeq(folders, isOther)

\* C40: agent:set-working-dir makes the given folder the first entry of
\* the authorized folders; if the folder already has an entry, the entry
\* keeps its trustLevel and addedAt, otherwise an entry with 'strict' is
\* added; the other entries keep their relative order, trust level and
\* addedAt.
C40_SetWorkingDirFrame ==
    [][(last' # last /\ last'.op = "agent:set-working-dir") =>
          LET p     == last'.arg
              old   == authorizedFolders
              new   == authorizedFolders'
              found == {i \in 1..Len(old) :
                           old[i].kind = "obj" /\ old[i].path = p}
          IN  /\ new # <<>>
              /\ new[1].kind = "obj"
              /\ new[1].path = p
              /\ IF found # {}
                 THEN \E i \in found :
                         /\ new[1].trustLevel = old[i].trustLevel
                         /\ new[1].addedAt = old[i].addedAt
                 ELSE /\ new[1].trustLevel = "strict"
                      /\ new[1].addedAt = now
              /\ Tail(new) = OtherEntries(old, p)]_vars

\* /a, authorized first with the trust level 'trust', was made the working
\* directory again after a folder added later had been put in front: it is
\* first with its trust level and its time of addition, and the two other
\* entries are in the order they had
C40_Witness ==
    /\ last.op = "agent:set-working-dir"
    /\ last.arg = FolderA
    /\ Len(authorizedFolders) = 3
    /\ authorizedFolders[1] = ObjEntry(FolderA, "trust", 0)
    /\ authorizedFolders[2].kind = "obj"
    /\ authorizedFolders[3].kind = "obj"
    /\ authorizedFolders[2].addedAt > authorizedFolders[3].addedAt

====
